---- MODULE Spec2Model ----
(***************************************************************************)
(* Model of forecasting/forecasting_pipeline.py: the demand forecasting    *)
(* pipeline (load, prepare, train baseline and regression forecasters,     *)
(* estimate uncertainty bands, project 24h and 72h horizons, concatenate,  *)
(* sort and save); of apply_pricing_rules of                               *)
(* decision_policy/pricing_rules.py; and of allocate_capacity of           *)
(* simulation_engine/scenario_runner.py.                                   *)
(*                                                                         *)
(* Numbers.  A float is modelled as a fixed-point integer counting units   *)
(* of 1/Scale, or as the value NaN.  Arithmetic propagates NaN the way     *)
(* IEEE arithmetic and numpy do; products and quotients are rounded to the *)
(* grid (floor in the forecasting pipeline, to nearest in                  *)
(* allocate_capacity).  Timestamps are whole hours since a Monday 00:00.   *)
(***************************************************************************)
EXTENDS Integers, Sequences, FiniteSets, TLC

VARIABLES
    pc,               \* position of run_forecasting_pipeline
    file_cols,        \* columns of the CSV at SOURCE_PATH
    file_rows,        \* rows of the CSV at SOURCE_PATH
    error,            \* exception that escaped run_forecasting_pipeline
    df,               \* load_data's result
    ts_df,            \* prepare_time_series' result
    baseline_model,   \* train_baseline_forecaster's result
    regression_model, \* train_regression_forecaster's result
    baseline_24, regression_24, baseline_72, regression_72,
    output_df,        \* the concatenated, sorted table
    saved,            \* content of the CSV at OUTPUT_PATH (<<>> before the write)
    written,          \* whether OUTPUT_PATH has been written
    eu_actuals, eu_forecasts, eu_band, \* a direct call of estimate_uncertainty
    call_args, call_result             \* a direct call of one function

vars == <<pc, file_cols, file_rows, error, df, ts_df, baseline_model,
          regression_model, baseline_24, regression_24, baseline_72,
          regression_72, output_df, saved, written,
          eu_actuals, eu_forecasts, eu_band, call_args, call_result>>

pipeline_vars == <<file_cols, file_rows, error, df, ts_df, baseline_model,
                   regression_model, baseline_24, regression_24, baseline_72,
                   regression_72, output_df, saved, written>>

-----------------------------------------------------------------------------
(* Numbers *)

Scale == 10 ^ 2

NaN == -(2 ^ 30)

Unit(x) == x * Scale

Max(a, b) == IF a >= b THEN a ELSE b
Min(a, b) == IF a <= b THEN a ELSE b
Abs(a) == IF a < 0 THEN -a ELSE a

FAdd(a, b) == IF a = NaN \/ b = NaN THEN NaN ELSE a + b
FSub(a, b) == IF a = NaN \/ b = NaN THEN NaN ELSE a - b
FMul(a, b) == IF a = NaN \/ b = NaN THEN NaN ELSE (a * b) \div Scale
FDiv(a, b) == IF a = NaN \/ b = NaN THEN NaN ELSE (a * Scale) \div b

\* np.maximum(a, b): NaN if either is NaN
NpMaximum(a, b) == IF a = NaN \/ b = NaN THEN NaN ELSE Max(a, b)

\* a clip that applies the lower limit only
NpClip_lower_only(x, lo, hi) == IF x = NaN THEN NaN ELSE Max(x, lo)

\* np.clip(x, lo, hi) of a scalar: NaN stays NaN
NpClip(x, lo, hi) == IF x = NaN THEN NaN ELSE Min(Max(x, lo), hi)

\* np.clip(x, 0.0, None)
ClipAtZero(x) == IF x = NaN THEN NaN ELSE Max(x, 0)

\* Python's max(pred, 0.0): returns pred unless 0.0 > pred, so NaN stays NaN
PyMaxZero(pred) == IF pred = NaN THEN NaN ELSE IF 0 > pred THEN 0 ELSE pred

\* Applies F(st, i) for i = from, from+1, ..., to (a for loop; st is a record
\* with a field k).  The range is halved so that evaluation nests only
\* logarithmically deep.
RECURSIVE Iter(_, _, _, _)
Iter(F(_, _), st, from, to) ==
    IF from > to THEN st
    ELSE IF from = to THEN F(st, from)
    ELSE LET mid == (from + to) \div 2
             left == Iter(F, st, from, mid)
         IN  IF left.k >= 0 THEN Iter(F, left, mid + 1, to) ELSE st

SeqSum(s) ==
    Iter(LAMBDA st, i: [k |-> i, acc |-> st.acc + s[i]], [k |-> 0, acc |-> 0], 1, Len(s)).acc

HasNaN(s) == \E i \in 1..Len(s) : s[i] = NaN

\* ndarray.mean() / Series.mean(): NaN for an empty array
Mean(s) ==
    IF Len(s) = 0 \/ HasNaN(s) THEN NaN ELSE SeqSum(s) \div Len(s)

\* largest r with r * r <= x, for x >= 0
ISqrt(x) ==
    Iter(LAMBDA st, i: [k |-> i, r |-> IF (st.r + 2 ^ (15 - i)) * (st.r + 2 ^ (15 - i)) <= x
                                       THEN st.r + 2 ^ (15 - i) ELSE st.r],
         [k |-> 0, r |-> 0], 1, 15).r

-----------------------------------------------------------------------------
(* Calendar *)

HoursPerDay == 24
DaysPerWeek == 7

Hour(ts) == ts % HoursPerDay
DayOfWeek(ts) == (ts \div HoursPerDay) % DaysPerWeek

-----------------------------------------------------------------------------
(* Program constants (literals of forecasting_pipeline.py) *)

REQUIRED_COLS ==
    {"timestamp", "zone_id", "segment_id", "final_demand",
     "orders_completed", "orders_lost_capacity"}

Eps == 1                  \* 1e-6: below the grid, rounded up to its smallest positive value
RecentWindow == 168       \* values[-168:]
PriorWindow == 336        \* values[-336:-168]
TrendLow == (90 * Scale) \div 100    \* 0.90
TrendHigh == (110 * Scale) \div 100  \* 1.10
TrendPeriod == 24         \* step / 24.0
Lag1 == 1
Lag24 == 24
Lag168 == 168
NumHourInd == 23          \* np.zeros(23)
NumDowInd == 6            \* np.zeros(6)
NumFeatures == 33         \* np.empty((0, 33))
HoldoutMax == 72
HoldoutMin == 24
HoldoutDiv == 10
QLowTenths == 1           \* np.quantile(residuals, 0.10)
QHighTenths == 9          \* np.quantile(residuals, 0.90)
RtolInv == 100000         \* np.isclose: rtol = 1e-05
AtolInv == 100000000      \* np.isclose: atol = 1e-08
Horizon24 == 24
Horizon72 == 72

-----------------------------------------------------------------------------
(* Identifiers and their order (Python compares strings lexicographically) *)

ZoneOrder == <<"zone_1", "zone_2">>
SegmentOrder == <<"balanced", "premium", "value">>
ModelOrder == <<"baseline", "regression">>

Rank(order, s) == CHOOSE i \in 1..Len(order) : order[i] = s

KeyLess(a, b) ==
    \/ Rank(ZoneOrder, a.zone_id) < Rank(ZoneOrder, b.zone_id)
    \/ /\ a.zone_id = b.zone_id
       /\ Rank(SegmentOrder, a.segment_id) < Rank(SegmentOrder, b.segment_id)

SameKey(a, b) == a.zone_id = b.zone_id /\ a.segment_id = b.segment_id

Range(s) == {s[i] : i \in 1..Len(s)}

-----------------------------------------------------------------------------
(* load_data, prepare_time_series *)

\* variant: only the columns the forecasters use are required
ReadCsvRaises_used_only(cols) ==
    ~({"timestamp", "zone_id", "segment_id", "final_demand"} \subseteq cols)

\* pd.read_csv(SOURCE_PATH, usecols=REQUIRED_COLS) raises ValueError when a
\* column of usecols is not in the file
ReadCsvRaises(cols) == ~(REQUIRED_COLS \subseteq cols)

\* the frame load_data returns: the file's rows, required columns only
LoadData(rows) ==
    [i \in 1..Len(rows) |->
        [timestamp |-> rows[i].timestamp, zone_id |-> rows[i].zone_id,
         segment_id |-> rows[i].segment_id, final_demand |-> rows[i].final_demand]]

PreparedLess(a, b) ==
    \/ KeyLess(a, b)
    \/ SameKey(a, b) /\ a.timestamp < b.timestamp

\* sort_values(["zone_id", "segment_id", "timestamp"]), then the hour and
\* day_of_week columns
PrepareTimeSeries(frame) ==
    LET out == SortSeq(frame, PreparedLess)
    IN  [i \in 1..Len(out) |->
            [timestamp |-> out[i].timestamp, zone_id |-> out[i].zone_id,
             segment_id |-> out[i].segment_id, final_demand |-> out[i].final_demand,
             hour |-> Hour(out[i].timestamp),
             day_of_week |-> DayOfWeek(out[i].timestamp)]]

\* column of a frame as an array
Column(frame, name) == [i \in 1..Len(frame) |-> frame[i][name]]

\* frame.iloc[a:b] with 0 <= a <= b <= len (0-based, b exclusive)
ILoc(frame, a, b) == SubSeq(frame, a + 1, b)

\* Python slice bound: a negative index counts from the end, then clamps
SliceBound(i, n) == IF i < 0 THEN Max(n + i, 0) ELSE Min(i, n)

\* the keys df.groupby(["zone_id", "segment_id"], observed=True) iterates, in
\* its (sorted) order
GroupKeys(frame) ==
    LET keys == {[zone_id |-> frame[i].zone_id, segment_id |-> frame[i].segment_id] :
                    i \in 1..Len(frame)}
        before(key) == Cardinality({o \in keys : KeyLess(o, key)})
    IN  [r \in 1..Cardinality(keys) |-> CHOOSE key \in keys : before(key) = r - 1]

\* variant: the group is not restricted to its key
SortedGroup_all(frame, key) ==
    SortSeq(frame, LAMBDA a, b: a.timestamp < b.timestamp)

\* one group, then g.sort_values("timestamp").reset_index(drop=True)
SortedGroup(frame, key) ==
    SortSeq(SelectSeq(frame, LAMBDA r: SameKey(r, key)),
            LAMBDA a, b: a.timestamp < b.timestamp)

-----------------------------------------------------------------------------
(* Baseline forecaster *)

\* variant: a stratum with no row is filled with 0.0
Profile_absent_zero(series_df, col, count, overall) ==
    [s \in 0..(count - 1) |->
        LET members == SelectSeq(series_df, LAMBDA r: r[col] = s)
        IN  IF Len(members) = 0 THEN 0
            ELSE FDiv(Mean(Column(members, "final_demand")), overall)]

\* groupby(col)["final_demand"].mean() / overall, reindexed over 0..count-1
\* with fill_value 1.0 for a stratum with no row
Profile(series_df, col, count, overall) ==
    [s \in 0..(count - 1) |->
        LET members == SelectSeq(series_df, LAMBDA r: r[col] = s)
        IN  IF Len(members) = 0 THEN Unit(1)
            ELSE FDiv(Mean(Column(members, "final_demand")), overall)]

_fit_baseline_components(series_df) ==
    LET values == Column(series_df, "final_demand")
        n == Len(values)
        overall == NpMaximum(Mean(values), Eps)
        recent_window == IF n >= RecentWindow THEN SubSeq(values, n - RecentWindow + 1, n)
                         ELSE values
        prior_window == IF n >= PriorWindow
                        THEN SubSeq(values, n - PriorWindow + 1, n - RecentWindow)
                        ELSE values
        recent_level == NpMaximum(Mean(recent_window), Eps)
        prior_level == NpMaximum(Mean(prior_window), Eps)
    IN  [level |-> recent_level,
         hour_profile |-> Profile(series_df, "hour", HoursPerDay, overall),
         dow_profile |-> Profile(series_df, "day_of_week", DaysPerWeek, overall),
         trend_ratio |-> NpClip(FDiv(recent_level, prior_level), TrendLow, TrendHigh)]

\* trend_ratio ** (step / 24.0) for a ratio within [0.90, 1.10]: the binomial
\* expansion to second order, which is the power to within one grid unit
TrendEffect(trend_ratio, step) ==
    IF trend_ratio = NaN THEN NaN
    ELSE LET u == trend_ratio - Scale
         IN  Scale + (step * u) \div TrendPeriod
                   + (step * (step - TrendPeriod) * u * u)
                        \div (2 * TrendPeriod * TrendPeriod * Scale)

_baseline_predict(components, future_timestamps) ==
    [i \in 1..Len(future_timestamps) |->
        LET hour_effect == components.hour_profile[Hour(future_timestamps[i])]
            dow_effect == components.dow_profile[DayOfWeek(future_timestamps[i])]
            trend_effect == TrendEffect(components.trend_ratio, i)
        IN  ClipAtZero(FMul(FMul(FMul(components.level, hour_effect), dow_effect),
                            trend_effect))]

-----------------------------------------------------------------------------
(* Regression forecaster *)

\* history[-lag]
LagValue(history, lag) == history[Len(history) - lag + 1]

\* variant: indicator value (0-based position value) is set, not value - 1
OneHot_shifted(count, value) ==
    [i \in 1..count |-> IF i = value + 1 THEN Unit(1) ELSE 0]

\* np.zeros(count) with position value - 1 (0-based) set to 1.0 if value > 0
OneHot(count, value) ==
    [i \in 1..count |-> IF value > 0 /\ i = value THEN Unit(1) ELSE 0]

\* requires Len(history) >= 168 (every call site provides it)
_build_regression_row(history, ts) ==
    <<Unit(1), LagValue(history, Lag1), LagValue(history, Lag24), LagValue(history, Lag168)>>
        \o OneHot(NumHourInd, Hour(ts)) \o OneHot(NumDowInd, DayOfWeek(ts))

\* variant: the loop starts at index 169
_make_regression_matrix_late(series_df) ==
    LET y == Column(series_df, "final_demand")
        ts == Column(series_df, "timestamp")
        count == Max(Len(series_df) - Lag168 - 1, 0)
    IN  [X |-> [j \in 1..count |->
                    _build_regression_row(SubSeq(y, 1, Lag168 + j), ts[Lag168 + j + 1])],
         y |-> [j \in 1..count |-> y[Lag168 + j + 1]]]

\* the design: one row and one target for idx in range(168, len(series_df))
_make_regression_matrix(series_df) ==
    LET y == Column(series_df, "final_demand")
        ts == Column(series_df, "timestamp")
        count == Max(Len(series_df) - Lag168, 0)
    IN  [X |-> [j \in 1..count |->
                    _build_regression_row(SubSeq(y, 1, Lag168 + j - 1), ts[Lag168 + j])],
         y |-> [j \in 1..count |-> y[Lag168 + j]]]

\* float(np.dot(row, beta))
Dot(row, beta) ==
    IF HasNaN(row) \/ HasNaN(beta) THEN NaN
    ELSE SeqSum([i \in 1..Len(row) |-> row[i] * beta[i]]) \div Scale

\* variant: the prediction is appended to the history before it is floored
RecursiveStep_raw_history(beta, last_ts, st, step) ==
    LET ts_next == last_ts + step
        row == _build_regression_row(st.hist, ts_next)
        pred == Dot(row, beta)
    IN  [k |-> step, preds |-> Append(st.preds, PyMaxZero(pred)),
         hist |-> Append(st.hist, pred)]

RecursiveStep(beta, last_ts, st, step) ==
    LET ts_next == last_ts + step
        row == _build_regression_row(st.hist, ts_next)
        pred == PyMaxZero(Dot(row, beta))
    IN  [k |-> step, preds |-> Append(st.preds, pred), hist |-> Append(st.hist, pred)]

_regression_recursive_forecast(beta, history, last_ts, horizon) ==
    Iter(LAMBDA st, step: RecursiveStep(beta, last_ts, st, step),
         [k |-> 0, preds |-> <<>>, hist |-> history], 1, horizon).preds

-----------------------------------------------------------------------------
(* Uncertainty estimator *)

\* np.quantile(a, tenths / 10), method "linear": the value at virtual index
\* q * (n - 1) of the sorted array, interpolated between its neighbours
NpQuantile(a, tenths) ==
    IF HasNaN(a) THEN NaN
    ELSE LET sorted == SortSeq(a, LAMBDA x, y: x < y)
             pos == tenths * (Len(a) - 1)
             lo == pos \div 10
             gamma == pos % 10
         IN  IF gamma = 0 THEN sorted[lo + 1]
             ELSE sorted[lo + 1] + (gamma * (sorted[lo + 2] - sorted[lo + 1])) \div 10

\* np.isclose(a, b): |a - b| <= atol + rtol * |b| with atol = 1e-08 and
\* rtol = 1e-05; False when either is NaN
IsClose(a, b) ==
    /\ a # NaN
    /\ b # NaN
    /\ Abs(a - b) <= (2 ^ 30) \div RtolInv
    /\ Abs(a - b) * RtolInv <= (Scale * RtolInv) \div AtolInv + Abs(b)

\* np.std(a): the population standard deviation.  A positive deviation below
\* the grid is one grid unit, so that "spread > 0" is decided as by the code.
NpStd(a) ==
    IF HasNaN(a) THEN NaN
    ELSE LET n == Len(a)
             mean == SeqSum(a) \div n
             root == ISqrt(SeqSum([i \in 1..n |-> (a[i] - mean) * (a[i] - mean)]) \div n)
         IN  IF root = 0 /\ \E i \in 1..n : a[i] # a[1] THEN 1 ELSE root

\* residuals = actuals - forecasts
Residuals(actuals, forecasts) ==
    [i \in 1..Len(actuals) |-> FSub(actuals[i], forecasts[i])]

\* variant: the band is made symmetric around zero
QuantileBand_symmetric(residuals) ==
    LET low_q == NpQuantile(residuals, QLowTenths)
        high_q == NpQuantile(residuals, QHighTenths)
    IN  IF IsClose(low_q, high_q)
        THEN LET std == NpStd(residuals)
                 spread == IF std > 0 THEN std ELSE Unit(1)
             IN  <<-spread, spread>>
        ELSE <<-((high_q - low_q) \div 2), (high_q - low_q) \div 2>>

\* variant: a zero standard deviation is not replaced by 1.0
QuantileBand_no_substitute(residuals) ==
    LET low_q == NpQuantile(residuals, QLowTenths)
        high_q == NpQuantile(residuals, QHighTenths)
    IN  IF IsClose(low_q, high_q)
        THEN <<-NpStd(residuals), NpStd(residuals)>>
        ELSE <<low_q, high_q>>

\* the band of a non-empty residual array
QuantileBand(residuals) ==
    LET low_q == NpQuantile(residuals, QLowTenths)
        high_q == NpQuantile(residuals, QHighTenths)
    IN  IF IsClose(low_q, high_q)
        THEN LET std == NpStd(residuals)
                 spread == IF std > 0 THEN std ELSE Unit(1)
             IN  <<-spread, spread>>
        ELSE <<low_q, high_q>>

\* variant: empty input gives a zero-width band
estimate_uncertainty_zero_band(actuals, forecasts) ==
    IF Len(actuals) = 0 \/ Len(forecasts) = 0 THEN <<0, 0>>
    ELSE QuantileBand(Residuals(actuals, forecasts))

estimate_uncertainty(actuals, forecasts) ==
    IF Len(actuals) = 0 \/ Len(forecasts) = 0 THEN <<-Unit(1), Unit(1)>>
    ELSE QuantileBand(Residuals(actuals, forecasts))

-----------------------------------------------------------------------------
(* Training *)

\* holdout = min(72, max(24, n // 10))
Holdout(n) == Min(HoldoutMax, Max(HoldoutMin, n \div HoldoutDiv))

\* variant: no validation tail is held out of the training data
TrainPart_whole(g) == g

\* g.iloc[:split]
TrainPart(g) == ILoc(g, 0, SliceBound(Len(g) - Holdout(Len(g)), Len(g)))

\* g.iloc[split:]
ValPart(g) == ILoc(g, SliceBound(Len(g) - Holdout(Len(g)), Len(g)), Len(g))

\* float(g["final_demand"].tail(72).mean())
RecentActualAvg(g) ==
    Mean(Column(ILoc(g, SliceBound(-HoldoutMax, Len(g)), Len(g)), "final_demand"))

\* variant: the validation predictions come from the components fit on the
\* full series
BaselineSeriesModel_in_sample(g, key) ==
    LET val_df == ValPart(g)
        comp_full == _fit_baseline_components(g)
        val_pred == _baseline_predict(comp_full, Column(val_df, "timestamp"))
    IN  [zone_id |-> key.zone_id,
         segment_id |-> key.segment_id,
         last_timestamp |-> g[Len(g)].timestamp,
         components |-> comp_full,
         uncertainty |-> estimate_uncertainty(Column(val_df, "final_demand"), val_pred),
         recent_actual_avg |-> RecentActualAvg(g)]

BaselineSeriesModel(g, key) ==
    LET val_df == ValPart(g)
        comp_train == _fit_baseline_components(TrainPart(g))
        val_pred == _baseline_predict(comp_train, Column(val_df, "timestamp"))
    IN  [zone_id |-> key.zone_id,
         segment_id |-> key.segment_id,
         last_timestamp |-> g[Len(g)].timestamp,
         components |-> _fit_baseline_components(g),
         uncertainty |-> estimate_uncertainty(Column(val_df, "final_demand"), val_pred),
         recent_actual_avg |-> RecentActualAvg(g)]

train_baseline_forecaster(frame) ==
    LET keys == GroupKeys(frame)
    IN  [model_name |-> "baseline",
         series_models |->
            [i \in 1..Len(keys) |-> BaselineSeriesModel(SortedGroup(frame, keys[i]), keys[i])]]

\* whether the loop body reaches "continue": the training prefix yields no row
RegressionSkips(g) == Len(_make_regression_matrix(TrainPart(g)).y) = 0

\* the least-squares problems train_regression_forecaster hands to
\* np.linalg.lstsq: for every series not skipped, the training design and the
\* full design
Designs(frame) ==
    LET keys == GroupKeys(frame)
        fitted == {i \in 1..Len(keys) : ~RegressionSkips(SortedGroup(frame, keys[i]))}
    IN  {_make_regression_matrix(TrainPart(SortedGroup(frame, keys[i]))) : i \in fitted}
            \cup {_make_regression_matrix(SortedGroup(frame, keys[i])) : i \in fitted}

\* lstsq: the solver, a function from a design to its coefficient vector
RegressionSeriesModel(g, key, lstsq) ==
    LET y_all == Column(g, "final_demand")
        n == Len(g)
        holdout == Holdout(n)
        split == n - holdout
        g_train == TrainPart(g)
        train == _make_regression_matrix(g_train)
    IN  IF Len(train.y) = 0 THEN [fitted |-> FALSE]
        ELSE LET beta_train == lstsq[train]
                 val_pred == _regression_recursive_forecast(
                                 beta_train, Column(g_train, "final_demand"),
                                 g_train[Len(g_train)].timestamp, holdout)
                 beta_full == lstsq[_make_regression_matrix(g)]
             IN  [fitted |-> TRUE,
                  zone_id |-> key.zone_id,
                  segment_id |-> key.segment_id,
                  last_timestamp |-> g[n].timestamp,
                  history |-> y_all,
                  beta |-> beta_full,
                  uncertainty |-> estimate_uncertainty(SubSeq(y_all, split + 1, n), val_pred),
                  recent_actual_avg |-> RecentActualAvg(g)]

\* variant: "break" in place of "continue": the loop ends at the first series
\* that is skipped
train_regression_forecaster_break(frame, lstsq) ==
    LET keys == GroupKeys(frame)
        all == [i \in 1..Len(keys) |->
                    RegressionSeriesModel(SortedGroup(frame, keys[i]), keys[i], lstsq)]
        stop == IF \A i \in 1..Len(all) : all[i].fitted THEN Len(all) + 1
                ELSE CHOOSE i \in 1..Len(all) :
                        ~all[i].fitted /\ \A j \in 1..(i - 1) : all[j].fitted
        kept == SubSeq(all, 1, stop - 1)
    IN  [model_name |-> "regression",
         series_models |->
            [i \in 1..Len(kept) |->
                [zone_id |-> kept[i].zone_id,
                 segment_id |-> kept[i].segment_id,
                 last_timestamp |-> kept[i].last_timestamp,
                 history |-> kept[i].history,
                 beta |-> kept[i].beta,
                 uncertainty |-> kept[i].uncertainty,
                 recent_actual_avg |-> kept[i].recent_actual_avg]]]

train_regression_forecaster(frame, lstsq) ==
    LET keys == GroupKeys(frame)
        all == [i \in 1..Len(keys) |->
                    RegressionSeriesModel(SortedGroup(frame, keys[i]), keys[i], lstsq)]
        kept == SelectSeq(all, LAMBDA m: m.fitted)
    IN  [model_name |-> "regression",
         series_models |->
            [i \in 1..Len(kept) |->
                [zone_id |-> kept[i].zone_id,
                 segment_id |-> kept[i].segment_id,
                 last_timestamp |-> kept[i].last_timestamp,
                 history |-> kept[i].history,
                 beta |-> kept[i].beta,
                 uncertainty |-> kept[i].uncertainty,
                 recent_actual_avg |-> kept[i].recent_actual_avg]]]

-----------------------------------------------------------------------------
(* Horizon projection *)

\* variant: the range starts one hour late
DateRange_late(start, periods) == [i \in 1..periods |-> start + i]

\* pd.date_range(start, periods=periods, freq="h")
DateRange(start, periods) == [i \in 1..periods |-> start + (i - 1)]

PointForecast(model_name, m, future_ts, horizon_hours) ==
    IF model_name = "baseline" THEN _baseline_predict(m.components, future_ts)
    ELSE _regression_recursive_forecast(m.beta, m.history, m.last_timestamp, horizon_hours)

\* the rows of one series ("part")
ForecastPart(model_name, m, horizon_hours) ==
    LET future_ts == DateRange(m.last_timestamp + 1, horizon_hours)
        point == PointForecast(model_name, m, future_ts, horizon_hours)
        low_adj == m.uncertainty[1]
        high_adj == m.uncertainty[2]
    IN  [i \in 1..horizon_hours |->
            [timestamp |-> future_ts[i],
             zone_id |-> m.zone_id,
             segment_id |-> m.segment_id,
             forecast_model |-> model_name,
             forecast_demand |-> point[i],
             lower_bound |-> ClipAtZero(FAdd(point[i], low_adj)),
             upper_bound |-> ClipAtZero(FAdd(point[i], high_adj))]]

\* pd.concat(rows, ignore_index=True): the parts one after the other
Concat(parts) ==
    Iter(LAMBDA st, i: [k |-> i, out |-> st.out \o parts[i]],
         [k |-> 0, out |-> <<>>], 1, Len(parts)).out

forecast_next_horizon(model, horizon_hours) ==
    Concat([i \in 1..Len(model.series_models) |->
                ForecastPart(model.model_name, model.series_models[i], horizon_hours)])

\* a recursion that appends its predictions to the caller's array
HistoryAfterForecast_in_place(beta, history, last_ts, horizon) ==
    Iter(LAMBDA st, step: RecursiveStep(beta, last_ts, st, step),
         [k |-> 0, preds |-> <<>>, hist |-> history], 1, horizon).hist

\* m["history"] after _regression_recursive_forecast has returned: the
\* recursion appends to hist, a copy made by history.astype(float).copy(),
\* and np.append builds a new array each time
HistoryAfterForecast(beta, history, last_ts, horizon) == history

\* the model after forecast_next_horizon has returned: the loop reads
\* m["last_timestamp"], m["components"], m["beta"] and m["uncertainty"] and
\* assigns none of them
ModelAfterForecast(model, horizon_hours) ==
    [model EXCEPT !.series_models =
        [i \in 1..Len(model.series_models) |->
            LET m == model.series_models[i]
            IN  IF model.model_name = "baseline" THEN m
                ELSE [m EXCEPT !.history =
                        HistoryAfterForecast(m.beta, m.history, m.last_timestamp,
                                             horizon_hours)]]]

OutputLess(a, b) ==
    \/ a.timestamp < b.timestamp
    \/ /\ a.timestamp = b.timestamp
       /\ \/ KeyLess(a, b)
          \/ /\ SameKey(a, b)
             /\ Rank(ModelOrder, a.forecast_model) < Rank(ModelOrder, b.forecast_model)

\* variant: the baseline frame is concatenated twice
OutputTable_twice(b72, r72) == SortSeq(b72 \o b72 \o r72, OutputLess)

\* variant: the concatenation is not sorted
OutputTable_unsorted(b72, r72) == b72 \o r72

\* pd.concat([baseline_72, regression_72]) sorted by
\* ["timestamp", "zone_id", "segment_id", "forecast_model"]
OutputTable(b72, r72) == SortSeq(b72 \o r72, OutputLess)

-----------------------------------------------------------------------------
(* Inputs: the CSV at SOURCE_PATH *)

MaxLen == 200     \* a series past every threshold of the regression forecaster
FirstTs == 5      \* first timestamp of the first series
LongSeries == 400 \* a series longer than the two trend windows (336 hours)

Shapes == {"const", "zero", "daily", "ramp"}

\* final_demand of observation i (1-based), taken at timestamp ts
Demand(shape, i, ts) ==
    CASE shape = "const" -> Unit(50)
      [] shape = "zero" -> 0
      [] shape = "daily" -> Unit(20) + Unit(5) * (Hour(ts) % 4)
      [] shape = "ramp" -> Unit(10) + (Scale \div 10) * i
      [] shape = "fall" -> Unit(60) - (Scale \div 10) * i

\* series lengths: around each threshold of the code
Lengths ==
    {1, HoldoutMin - 4, HoldoutMin, HoldoutMin + 1, Lag168, Lag168 + 1,
     Lag168 + HoldoutMin, Lag168 + HoldoutMin + 1, MaxLen, LongSeries}

KeyA == [zone_id |-> "zone_1", segment_id |-> "value"]
KeyB == [zone_id |-> "zone_1", segment_id |-> "premium"]

SeriesRows(key, n, shape, first) ==
    [i \in 1..n |->
        [timestamp |-> first + i - 1, zone_id |-> key.zone_id,
         segment_id |-> key.segment_id,
         final_demand |-> Demand(shape, i, first + i - 1),
         base_demand |-> Demand(shape, i, first + i - 1)]]

Reverse(s) == [i \in 1..Len(s) |-> s[Len(s) + 1 - i]]

\* a table: series A (any length, any shape, or absent), then series B
\* (absent, one observation, or long enough for regression), rows ascending
\* or the whole file in descending order
Tables ==
    {IF desc THEN Reverse(a \o b) ELSE a \o b :
        a \in {SeriesRows(KeyA, n, shape, FirstTs) : n \in Lengths, shape \in Shapes}
                \cup {<<>>},
        b \in {SeriesRows(KeyB, n, "daily", FirstTs + 30) :
                    n \in {0, 1, Lag168 + HoldoutMin + 1}},
        desc \in BOOLEAN}

\* the file's header: every required column and one more, or one required
\* column missing
ColumnSets ==
    {REQUIRED_COLS \cup {"base_demand"}}
        \cup {(REQUIRED_COLS \cup {"base_demand"}) \ {c} : c \in REQUIRED_COLS}

\* coefficient vectors np.linalg.lstsq may return (33 coefficients: bias,
\* lag 1, lag 24, lag 168, 23 hours, 6 weekdays)
BetaPersistence == [i \in 1..NumFeatures |-> IF i = 2 THEN Unit(1) ELSE 0]

BetaCalendar ==
    [i \in 1..NumFeatures |->
        CASE i = 1 -> -Unit(5)
          [] i = 2 -> 0
          [] i = 3 -> Scale \div 2
          [] i = 4 -> (4 * Scale) \div 10
          [] i \in 5..27 -> Unit((i % 3) - 1)
          [] OTHER -> -Unit(i % 2)]

Betas == {BetaPersistence, BetaCalendar}

-----------------------------------------------------------------------------
(* run_forecasting_pipeline *)

NoModel == [model_name |-> "none", series_models |-> <<>>]

Init ==
    /\ pc = "load"
    /\ file_cols \in ColumnSets
    /\ file_rows \in Tables
    /\ error = "none"
    /\ df = <<>>
    /\ ts_df = <<>>
    /\ baseline_model = NoModel
    /\ regression_model = NoModel
    /\ baseline_24 = <<>>
    /\ regression_24 = <<>>
    /\ baseline_72 = <<>>
    /\ regression_72 = <<>>
    /\ output_df = <<>>
    /\ saved = <<>>
    /\ written = FALSE
    /\ eu_actuals = <<>>
    /\ eu_forecasts = <<>>
    /\ eu_band = <<>>
    /\ call_args = <<>>
    /\ call_result = <<>>

\* df = load_data(): read_csv raises before any row is used
Load ==
    /\ pc = "load"
    /\ IF ReadCsvRaises(file_cols)
       THEN /\ error' = "ValueError"
            /\ pc' = "failed"
            /\ df' = df
       ELSE /\ df' = LoadData(file_rows)
            /\ pc' = "prepare"
            /\ error' = error
    /\ UNCHANGED <<file_cols, file_rows, ts_df, baseline_model, regression_model,
                   baseline_24, regression_24, baseline_72, regression_72,
                   output_df, saved, written, eu_actuals, eu_forecasts, eu_band,
                   call_args, call_result>>

Prepare ==
    /\ pc = "prepare"
    /\ ts_df' = PrepareTimeSeries(df)
    /\ pc' = "train_baseline"
    /\ UNCHANGED <<file_cols, file_rows, error, df, baseline_model, regression_model,
                   baseline_24, regression_24, baseline_72, regression_72,
                   output_df, saved, written, eu_actuals, eu_forecasts, eu_band,
                   call_args, call_result>>

TrainBaseline ==
    /\ pc = "train_baseline"
    /\ baseline_model' = train_baseline_forecaster(ts_df)
    /\ pc' = "train_regression"
    /\ UNCHANGED <<file_cols, file_rows, error, df, ts_df, regression_model,
                   baseline_24, regression_24, baseline_72, regression_72,
                   output_df, saved, written, eu_actuals, eu_forecasts, eu_band,
                   call_args, call_result>>

\* np.linalg.lstsq is a function of the design; which coefficients it returns
\* for a design is left open among Betas
TrainRegression ==
    /\ pc = "train_regression"
    /\ \E lstsq \in [Designs(ts_df) -> Betas] :
            regression_model' = train_regression_forecaster(ts_df, lstsq)
    /\ pc' = "baseline_24"
    /\ UNCHANGED <<file_cols, file_rows, error, df, ts_df, baseline_model,
                   baseline_24, regression_24, baseline_72, regression_72,
                   output_df, saved, written, eu_actuals, eu_forecasts, eu_band,
                   call_args, call_result>>

ForecastBaseline24 ==
    /\ pc = "baseline_24"
    /\ baseline_24' = forecast_next_horizon(baseline_model, Horizon24)
    /\ baseline_model' = ModelAfterForecast(baseline_model, Horizon24)
    /\ pc' = "regression_24"
    /\ UNCHANGED <<file_cols, file_rows, error, df, ts_df, regression_model,
                   regression_24, baseline_72, regression_72,
                   output_df, saved, written, eu_actuals, eu_forecasts, eu_band,
                   call_args, call_result>>

ForecastRegression24 ==
    /\ pc = "regression_24"
    /\ regression_24' = forecast_next_horizon(regression_model, Horizon24)
    /\ regression_model' = ModelAfterForecast(regression_model, Horizon24)
    /\ pc' = "baseline_72"
    /\ UNCHANGED <<file_cols, file_rows, error, df, ts_df, baseline_model,
                   baseline_24, baseline_72, regression_72,
                   output_df, saved, written, eu_actuals, eu_forecasts, eu_band,
                   call_args, call_result>>

ForecastBaseline72 ==
    /\ pc = "baseline_72"
    /\ baseline_72' = forecast_next_horizon(baseline_model, Horizon72)
    /\ baseline_model' = ModelAfterForecast(baseline_model, Horizon72)
    /\ pc' = "regression_72"
    /\ UNCHANGED <<file_cols, file_rows, error, df, ts_df, regression_model,
                   baseline_24, regression_24, regression_72,
                   output_df, saved, written, eu_actuals, eu_forecasts, eu_band,
                   call_args, call_result>>

ForecastRegression72 ==
    /\ pc = "regression_72"
    /\ regression_72' = forecast_next_horizon(regression_model, Horizon72)
    /\ regression_model' = ModelAfterForecast(regression_model, Horizon72)
    /\ pc' = "assemble"
    /\ UNCHANGED <<file_cols, file_rows, error, df, ts_df, baseline_model,
                   baseline_24, regression_24, baseline_72,
                   output_df, saved, written, eu_actuals, eu_forecasts, eu_band,
                   call_args, call_result>>

Assemble ==
    /\ pc = "assemble"
    /\ output_df' = OutputTable(baseline_72, regression_72)
    /\ pc' = "save"
    /\ UNCHANGED <<file_cols, file_rows, error, df, ts_df, baseline_model,
                   regression_model, baseline_24, regression_24, baseline_72,
                   regression_72, saved, written, eu_actuals, eu_forecasts, eu_band,
                   call_args, call_result>>

\* output_df.to_csv(OUTPUT_PATH, index=False)
Save ==
    /\ pc = "save"
    /\ saved' = output_df
    /\ written' = TRUE
    /\ pc' = "done"
    /\ UNCHANGED <<file_cols, file_rows, error, df, ts_df, baseline_model,
                   regression_model, baseline_24, regression_24, baseline_72,
                   regression_72, output_df, eu_actuals, eu_forecasts, eu_band,
                   call_args, call_result>>

Next ==
    \/ Load
    \/ Prepare
    \/ TrainBaseline
    \/ TrainRegression
    \/ ForecastBaseline24
    \/ ForecastRegression24
    \/ ForecastBaseline72
    \/ ForecastRegression72
    \/ Assemble
    \/ Save

Spec == Init /\ [][Next]_vars

-----------------------------------------------------------------------------
(* estimate_uncertainty called on its own *)

MaxArr == 3       \* longest array of the exhaustive inputs
LongLen == 11     \* length of the arrays with outliers at both ends

ActualVals == {Unit(9000), Unit(9000) + Scale \div 10, Unit(40)}
ForecastVals == {0, Unit(50), Unit(60)}

SeqsUpTo(n, S) == UNION {[1..m -> S] : m \in 0..n}

\* arrays of equal length, or one of them empty; and arrays of LongLen
\* residuals that are all mid but the first (hi) and the last (lo)
EUInputs ==
    {[actuals |-> a, forecasts |-> f] :
        a \in SeqsUpTo(MaxArr, ActualVals),
        f \in SeqsUpTo(MaxArr, ForecastVals)}
    \cup
    {[actuals |-> [i \in 1..LongLen |->
                      IF i = 1 THEN hi ELSE IF i = LongLen THEN lo ELSE Unit(40)],
      forecasts |-> [i \in 1..LongLen |-> Unit(50)]] :
        lo \in {0, Unit(40)}, hi \in {Unit(40), Unit(90)}}

InitEU ==
    /\ pc = "eu_call"
    /\ \E in \in EUInputs :
            /\ Len(in.actuals) = Len(in.forecasts)
                    \/ Len(in.actuals) = 0 \/ Len(in.forecasts) = 0
            /\ eu_actuals = in.actuals
            /\ eu_forecasts = in.forecasts
    /\ eu_band = <<>>
    /\ call_args = <<>>
    /\ call_result = <<>>
    /\ file_cols = REQUIRED_COLS
    /\ file_rows = <<>>
    /\ error = "none"
    /\ df = <<>>
    /\ ts_df = <<>>
    /\ baseline_model = NoModel
    /\ regression_model = NoModel
    /\ baseline_24 = <<>>
    /\ regression_24 = <<>>
    /\ baseline_72 = <<>>
    /\ regression_72 = <<>>
    /\ output_df = <<>>
    /\ saved = <<>>
    /\ written = FALSE

EstimateUncertaintyCall ==
    /\ pc = "eu_call"
    /\ eu_band' = estimate_uncertainty(eu_actuals, eu_forecasts)
    /\ pc' = "eu_done"
    /\ UNCHANGED <<eu_actuals, eu_forecasts, call_args, call_result>>
    /\ UNCHANGED pipeline_vars

NextEU == EstimateUncertaintyCall

SpecEU == InitEU /\ [][NextEU]_vars

-----------------------------------------------------------------------------
(* The helpers called on their own: the train/validation split,            *)
(* _make_regression_matrix, _build_regression_row,                         *)
(* _regression_recursive_forecast and _fit_baseline_components             *)

\* a prepared single-series table
Series(n, shape, first) == PrepareTimeSeries(LoadData(SeriesRows(KeyA, n, shape, first)))

\* series lengths around the thresholds of the holdout rule (24 = 240 // 10,
\* 72 = 720 // 10)
SplitLengths == {1, 12, 13, 23, 24, 25, 239, 240, 250, 719, 720, 800}

\* series lengths around the first target index
MatrixLengths == {1, Lag168 - 1, Lag168, Lag168 + 1, Lag168 + 2, MaxLen}

\* window lengths around the bounds of the recent and the prior window
FitLengths ==
    {1, HoldoutMin - 4, RecentWindow - 1, RecentWindow, RecentWindow + 1,
     PriorWindow - 1, PriorWindow, LongSeries}

\* the shapes of the series, and a series that declines
FitShapes == Shapes \cup {"fall"}

\* coefficients that weigh the three lags and the calendar
BetaLags ==
    [i \in 1..NumFeatures |->
        CASE i = 1 -> -Unit(14)
          [] i = 2 -> Scale \div 2
          [] i = 3 -> (3 * Scale) \div 10
          [] i = 4 -> (2 * Scale) \div 10
          [] i \in 5..27 -> Unit(4) * ((i % 3) - 1)
          [] OTHER -> Unit(i % 2)]

CallInputs ==
    {[fn |-> "split", g |-> Series(n, "ramp", FirstTs)] : n \in SplitLengths}
    \cup
    {[fn |-> "matrix", series_df |-> Series(n, shape, FirstTs)] :
        n \in MatrixLengths, shape \in Shapes}
    \cup
    {[fn |-> "row", history |-> Column(Series(n, "ramp", FirstTs), "final_demand"),
      ts |-> HoursPerDay * d + h, hour |-> h, dayofweek |-> d] :
        n \in {Lag168, MaxLen}, h \in 0..(HoursPerDay - 1), d \in 0..(DaysPerWeek - 1)}
    \cup
    {[fn |-> "recursive", beta |-> beta,
      history |-> Column(Series(n, shape, FirstTs), "final_demand"),
      last_ts |-> FirstTs + n - 1, horizon |-> horizon] :
        beta \in Betas \cup {BetaLags}, n \in {Lag168, MaxLen}, shape \in Shapes,
        horizon \in {1, Horizon24, Horizon24 + 1, Horizon72, Lag168}}
    \cup
    {[fn |-> "fit", series_df |-> Series(n, shape, first)] :
        n \in FitLengths, shape \in FitShapes, first \in {FirstTs, FirstTs + 100}}

InitCall ==
    /\ pc = "call"
    /\ call_args \in CallInputs
    /\ call_result = <<>>
    /\ eu_actuals = <<>>
    /\ eu_forecasts = <<>>
    /\ eu_band = <<>>
    /\ file_cols = REQUIRED_COLS
    /\ file_rows = <<>>
    /\ error = "none"
    /\ df = <<>>
    /\ ts_df = <<>>
    /\ baseline_model = NoModel
    /\ regression_model = NoModel
    /\ baseline_24 = <<>>
    /\ regression_24 = <<>>
    /\ baseline_72 = <<>>
    /\ regression_72 = <<>>
    /\ output_df = <<>>
    /\ saved = <<>>
    /\ written = FALSE

Returned(result) ==
    /\ call_result' = result
    /\ pc' = "returned"
    /\ UNCHANGED <<call_args, eu_actuals, eu_forecasts, eu_band>>
    /\ UNCHANGED pipeline_vars

\* train_df = g.iloc[:split], val_df = g.iloc[split:]
SplitCall ==
    /\ pc = "call"
    /\ call_args.fn = "split"
    /\ Returned([train |-> TrainPart(call_args.g), val |-> ValPart(call_args.g)])

MakeRegressionMatrixCall ==
    /\ pc = "call"
    /\ call_args.fn = "matrix"
    /\ Returned(_make_regression_matrix(call_args.series_df))

BuildRegressionRowCall ==
    /\ pc = "call"
    /\ call_args.fn = "row"
    /\ Returned(_build_regression_row(call_args.history, call_args.ts))

RecursiveForecastCall ==
    /\ pc = "call"
    /\ call_args.fn = "recursive"
    /\ Returned(_regression_recursive_forecast(call_args.beta, call_args.history,
                                               call_args.last_ts, call_args.horizon))

FitBaselineCall ==
    /\ pc = "call"
    /\ call_args.fn = "fit"
    /\ Returned(_fit_baseline_components(call_args.series_df))

NextCall ==
    \/ SplitCall
    \/ MakeRegressionMatrixCall
    \/ BuildRegressionRowCall
    \/ RecursiveForecastCall
    \/ FitBaselineCall

SpecCall == InitCall /\ [][NextCall]_vars

-----------------------------------------------------------------------------
(* decision_policy/pricing_rules.py: apply_pricing_rules.  Pressures,      *)
(* utilization, stress and uncertainty ratios are floats on the grid of    *)
(* 1/Scale; recommended_pct_change is kept in units of 1/PctScale, the     *)
(* four decimals of round(pct_change, 4), and computed in units of 1/Fine. *)

PctScale == 10 ^ 4
Fine == 10 ^ 6

\* comparisons of floats: false when either side is NaN
FGe(a, b) == a # NaN /\ b # NaN /\ a >= b
FLe(a, b) == a # NaN /\ b # NaN /\ a <= b
FGt(a, b) == a # NaN /\ b # NaN /\ a > b

\* a / b of two grid values, in units of 1/Fine
FineDiv(a, b) == IF a = NaN \/ b = NaN THEN NaN ELSE (a * Fine) \div b

\* a + c * x for a, c in hundredths and x in units of 1/Fine
FineAffine(a, c, x) ==
    IF x = NaN THEN NaN ELSE a * (Fine \div 100) + (c * x) \div 100

\* round(x, 4) of a value in units of 1/Fine: to the nearest multiple of
\* 1/PctScale, a tie to the even one
Round4(x) ==
    IF x = NaN THEN NaN
    ELSE LET step == Fine \div PctScale
             mag == Abs(x)
             down == mag \div step
             rest == mag % step
             near == IF 2 * rest > step THEN down + 1
                     ELSE IF 2 * rest < step THEN down
                     ELSE IF down % 2 = 0 THEN down ELSE down + 1
         IN  IF x < 0 THEN -near ELSE near

\* literals of apply_pricing_rules
max_surge == 20
max_discount == -25
stress_high == 70
util_low == 78
uncertainty_hold_threshold == 42
uncertainty_high_threshold == 30
cooldown_hours == 3
SurgeWorst == 115
SurgeExpected == 105
DiscountBest == 80
DiscountExpected == 90
SeverityBase == 105
SeveritySpan == 25
SurgeFloor == 5
SurgeSlope == 15
SlackSpan == 30
DiscountFloor == 6
DiscountSlope == 19
ExcessUtil == 72

surge_candidate(row) ==
    \/ FGe(row.worst_case_pressure, SurgeWorst)
    \/ /\ FGe(row.expected_pressure, SurgeExpected)
       /\ FGe(row.stress_index, Unit(stress_high))

discount_candidate(row) ==
    /\ FLe(row.best_case_pressure, DiscountBest)
    /\ FLe(row.expected_pressure, DiscountExpected)
    /\ FLe(row.utilization_rate, util_low)

\* variant: the surge change without the clip of severity
SurgePct_unclipped(row) ==
    FineAffine(SurgeFloor, SurgeSlope,
               FineDiv(FSub(row.worst_case_pressure, SeverityBase), SeveritySpan))

\* np.clip(0.05 + 0.15 * severity, 0.0, max_surge), with
\* severity = np.clip((worst_case_pressure - 1.05) / 0.25, 0.0, 1.0)
SurgePct(row) ==
    LET severity == NpClip(FineDiv(FSub(row.worst_case_pressure, SeverityBase),
                                   SeveritySpan), 0, Fine)
    IN  NpClip(FineAffine(SurgeFloor, SurgeSlope, severity),
               0, max_surge * (Fine \div 100))

\* np.clip(-(0.06 + 0.19 * slack), max_discount, 0.0), with
\* slack = np.clip((0.90 - expected_pressure) / 0.30, 0.0, 1.0)
DiscountPct(row) ==
    LET slack == NpClip(FineDiv(FSub(DiscountExpected, row.expected_pressure),
                                SlackSpan), 0, Fine)
    IN  NpClip(FSub(0, FineAffine(DiscountFloor, DiscountSlope, slack)),
               max_discount * (Fine \div 100), 0)

\* variant: the guardrail holds above the high-risk threshold plus 0.20
UncertaintyHold_late(uncertainty_ratio) ==
    FGt(uncertainty_ratio, uncertainty_high_threshold + 20)

\* uncertainty_ratio > uncertainty_hold_threshold
UncertaintyHold(uncertainty_ratio) ==
    FGt(uncertainty_ratio, uncertainty_hold_threshold)

\* lines 210-242: the decision of a row before the cooldown
Proposal(row) ==
    LET surge == surge_candidate(row)
        discount == discount_candidate(row)
    IN  IF surge /\ discount
        THEN [action |-> "HOLD", pct_change |-> 0, reason |-> "INSUFFICIENT_SIGNAL",
              notes |-> "conflicting"]
        ELSE IF UncertaintyHold(row.uncertainty_ratio) /\ (surge \/ discount)
        THEN [action |-> "HOLD", pct_change |-> 0, reason |-> "UNCERTAINTY_TOO_HIGH",
              notes |-> "uncertainty"]
        ELSE IF surge
        THEN [action |-> "SURGE", pct_change |-> SurgePct(row),
              reason |-> IF FGe(row.worst_case_pressure, SurgeWorst)
                         THEN "CAPACITY_PROTECTION" ELSE "PEAK_DEMAND_CONTROL",
              notes |-> "overload"]
        ELSE IF discount
        THEN [action |-> "DISCOUNT", pct_change |-> DiscountPct(row),
              reason |-> IF FLe(row.utilization_rate, ExcessUtil)
                         THEN "EXCESS_CAPACITY" ELSE "DEMAND_STIMULUS",
              notes |-> "slack"]
        ELSE [action |-> "HOLD", pct_change |-> 0, reason |-> "INSUFFICIENT_SIGNAL",
              notes |-> "pressure"]

\* variant: the window is one hour shorter
InCooldown_short(hours_since) == hours_since < cooldown_hours - 1

\* hours_since < cooldown_hours
InCooldown(hours_since) == hours_since < cooldown_hours

\* lines 244-251: the cooldown guardrail
Cooldown(proposal, row, last_non_hold_ts, key) ==
    IF /\ proposal.action # "HOLD"
       /\ key \in DOMAIN last_non_hold_ts
       /\ InCooldown(row.timestamp - last_non_hold_ts[key])
    THEN [action |-> "HOLD", pct_change |-> 0, reason |-> "COOLDOWN_GUARDRAIL",
          notes |-> "cooldown"]
    ELSE proposal

\* lines 253-263
RiskFlag(action, reason, uncertainty_ratio) ==
    IF action = "SURGE"
    THEN IF FGe(uncertainty_ratio, uncertainty_high_threshold) THEN "HIGH" ELSE "MEDIUM"
    ELSE IF action = "DISCOUNT"
    THEN IF FGe(uncertainty_ratio, uncertainty_high_threshold) THEN "MEDIUM" ELSE "LOW"
    ELSE IF reason = "UNCERTAINTY_TOO_HIGH" THEN "HIGH"
    ELSE IF FGe(uncertainty_ratio, uncertainty_high_threshold) THEN "MEDIUM"
    ELSE "LOW"

\* one pass of the loop over df.itertuples
PricingStep(sorted, st, i) ==
    LET row == sorted[i]
        key == <<row.zone_id, row.segment_id>>
        final == Cooldown(Proposal(row), row, st.last_non_hold_ts, key)
        risk == RiskFlag(final.action, final.reason, row.uncertainty_ratio)
    IN  [k |-> i,
         last_non_hold_ts |->
            IF final.action # "HOLD"
            THEN [x \in DOMAIN st.last_non_hold_ts \cup {key} |->
                    IF x = key THEN row.timestamp ELSE st.last_non_hold_ts[x]]
            ELSE st.last_non_hold_ts,
         rows |-> Append(st.rows,
                    [timestamp |-> row.timestamp,
                     zone_id |-> row.zone_id,
                     segment_id |-> row.segment_id,
                     recommended_action |-> final.action,
                     recommended_pct_change |-> Round4(final.pct_change),
                     decision_reason |-> final.reason,
                     risk_flag |-> risk,
                     policy_notes |-> final.notes])]

\* sort_values(["zone_id", "segment_id", "timestamp"]), then the loop
apply_pricing_rules(signals_df) ==
    LET sorted == SortSeq(signals_df, PreparedLess)
    IN  Iter(LAMBDA st, i: PricingStep(sorted, st, i),
             [k |-> 0, last_non_hold_ts |-> <<>>, rows |-> <<>>], 1, Len(sorted)).rows

-----------------------------------------------------------------------------
(* Inputs of apply_pricing_rules: the table of evaluate_decision_signals,  *)
(* one row per (timestamp, zone_id, segment_id), in the order of           *)
(* aggregate_forecasts (timestamp, zone_id, segment_id)                    *)

MaxRows == 3
FirstHour == 7

\* pressure profiles: maximal surge, surge at its threshold, surge by
\* expected pressure and stress (with and without a worst case), the three
\* discounts, conflicting signals, signals just short of every threshold,
\* and no capacity profile at all
PressureProfiles ==
    [surge_max |-> [worst_case_pressure |-> 140, expected_pressure |-> 120,
                    best_case_pressure |-> 100, stress_index |-> Unit(80),
                    utilization_rate |-> 90],
     surge_edge |-> [worst_case_pressure |-> 115, expected_pressure |-> 100,
                     best_case_pressure |-> 90, stress_index |-> 0,
                     utilization_rate |-> 90],
     peak |-> [worst_case_pressure |-> 110, expected_pressure |-> 105,
               best_case_pressure |-> 100, stress_index |-> Unit(70),
               utilization_rate |-> 90],
     peak_low |-> [worst_case_pressure |-> 0, expected_pressure |-> 120,
                   best_case_pressure |-> 0, stress_index |-> Unit(75),
                   utilization_rate |-> 90],
     discount_max |-> [worst_case_pressure |-> 100, expected_pressure |-> 50,
                       best_case_pressure |-> 50, stress_index |-> Unit(10),
                       utilization_rate |-> 70],
     discount_edge |-> [worst_case_pressure |-> 100, expected_pressure |-> 90,
                        best_case_pressure |-> 80, stress_index |-> Unit(10),
                        utilization_rate |-> 78],
     discount_mid |-> [worst_case_pressure |-> 100, expected_pressure |-> 80,
                       best_case_pressure |-> 70, stress_index |-> Unit(10),
                       utilization_rate |-> 72],
     both |-> [worst_case_pressure |-> 120, expected_pressure |-> 85,
               best_case_pressure |-> 70, stress_index |-> 0,
               utilization_rate |-> 70],
     none |-> [worst_case_pressure |-> 114, expected_pressure |-> 104,
               best_case_pressure |-> 81, stress_index |-> Unit(69),
               utilization_rate |-> 79],
     missing |-> [worst_case_pressure |-> NaN, expected_pressure |-> NaN,
                  best_case_pressure |-> NaN, stress_index |-> NaN,
                  utilization_rate |-> NaN]]

UncertaintyRatios == {10, 30, 42, 43}

AllKinds ==
    {[profile |-> p, uncertainty_ratio |-> u] :
        p \in DOMAIN PressureProfiles, u \in UncertaintyRatios}

\* the kinds of row that make up the longer tables
SeriesKinds ==
    {[profile |-> "surge_max", uncertainty_ratio |-> 10],
     [profile |-> "discount_mid", uncertainty_ratio |-> 30],
     [profile |-> "none", uncertainty_ratio |-> 10],
     [profile |-> "peak", uncertainty_ratio |-> 43],
     [profile |-> "both", uncertainty_ratio |-> 43],
     [profile |-> "missing", uncertainty_ratio |-> 10]}

SignalRow(key, ts, kind) ==
    LET p == PressureProfiles[kind.profile]
    IN  [timestamp |-> ts, zone_id |-> key.zone_id, segment_id |-> key.segment_id,
         uncertainty_ratio |-> kind.uncertainty_ratio,
         worst_case_pressure |-> p.worst_case_pressure,
         expected_pressure |-> p.expected_pressure,
         best_case_pressure |-> p.best_case_pressure,
         stress_index |-> p.stress_index,
         utilization_rate |-> p.utilization_rate]

\* timestamps that start at FirstHour and advance by the given gaps
Stamps(gaps) ==
    [i \in 1..(Len(gaps) + 1) |->
        FirstHour + SeqSum([j \in 1..Len(gaps) |-> IF j < i THEN gaps[j] ELSE 0])]

\* the rows of KeyA at the given timestamps, each preceded, when `other`
\* is set, by a row of KeyB at the same timestamp that calls for a surge
SignalTable(kinds, stamps, other) ==
    Concat([i \in 1..Len(kinds) |->
                (IF other
                 THEN <<SignalRow(KeyB, stamps[i],
                                  [profile |-> "surge_max", uncertainty_ratio |-> 10])>>
                 ELSE <<>>)
                \o <<SignalRow(KeyA, stamps[i], kinds[i])>>])

\* the tables of one row of every kind, and the tables of n rows of KeyA
SignalTables(n) ==
    (IF n = 1 THEN {SignalTable(<<kind>>, <<FirstHour>>, FALSE) : kind \in AllKinds}
     ELSE {})
    \cup
    {SignalTable(kinds, Stamps(gaps), other) :
        kinds \in [1..n -> SeriesKinds],
        gaps \in [1..(n - 1) -> 1..cooldown_hours],
        other \in BOOLEAN}

InitRules ==
    /\ pc = "call"
    /\ \E n \in 1..MaxRows :
            call_args \in {[fn |-> "apply_pricing_rules", signals_df |-> t] :
                              t \in SignalTables(n)}
    /\ call_result = <<>>
    /\ eu_actuals = <<>>
    /\ eu_forecasts = <<>>
    /\ eu_band = <<>>
    /\ file_cols = REQUIRED_COLS
    /\ file_rows = <<>>
    /\ error = "none"
    /\ df = <<>>
    /\ ts_df = <<>>
    /\ baseline_model = NoModel
    /\ regression_model = NoModel
    /\ baseline_24 = <<>>
    /\ regression_24 = <<>>
    /\ baseline_72 = <<>>
    /\ regression_72 = <<>>
    /\ output_df = <<>>
    /\ saved = <<>>
    /\ written = FALSE

ApplyPricingRulesCall ==
    /\ pc = "call"
    /\ call_args.fn = "apply_pricing_rules"
    /\ Returned(apply_pricing_rules(call_args.signals_df))

NextRules == ApplyPricingRulesCall

SpecRules == InitRules /\ [][NextRules]_vars

-----------------------------------------------------------------------------
(* simulation_engine/scenario_runner.py: allocate_capacity.  Its products  *)
(* and quotients are rounded to the nearest value of the grid, a tie to    *)
(* the even one, as IEEE arithmetic rounds to the nearest double; sums and *)
(* differences of grid values are exact.                                   *)

\* num / den to the nearest integer, a tie to the even one (num >= 0, den > 0)
RoundDiv(num, den) ==
    LET down == num \div den
        rest == num % den
    IN  IF 2 * rest > den THEN down + 1
        ELSE IF 2 * rest < den THEN down
        ELSE IF down % 2 = 0 THEN down ELSE down + 1

RMul(a, b) == IF a = NaN \/ b = NaN THEN NaN ELSE RoundDiv(a * b, Scale)
RDiv(a, b) == IF a = NaN \/ b = NaN THEN NaN ELSE RoundDiv(a * Scale, b)

\* np.minimum(a, b)
NpMinimum(a, b) == IF a = NaN \/ b = NaN THEN NaN ELSE Min(a, b)

\* zone_total.clip(lower=1e-9): the smallest positive value of the grid
TinyTotal == 1

\* group_cols = ["strategy_name", "timestamp", "zone_id"]
SameGroup(a, b) ==
    /\ a.strategy_name = b.strategy_name
    /\ a.timestamp = b.timestamp
    /\ a.zone_id = b.zone_id

\* groupby(group_cols)[col].transform("sum") at one row
GroupSum(frame, row, col) ==
    SeqSum(Column(SelectSeq(frame, LAMBDA r: SameGroup(r, row)), col))

\* lines 175-180 for one row
Allocated(sim_df, row) ==
    LET zone_total == GroupSum(sim_df, row, "adjusted_demand")
        capacity == row.max_hourly_capacity
        fill_ratio == NpMinimum(Unit(1), RDiv(capacity, NpMaximum(zone_total, TinyTotal)))
        orders_completed == RMul(row.adjusted_demand, fill_ratio)
    IN  [strategy_name |-> row.strategy_name,
         timestamp |-> row.timestamp,
         zone_id |-> row.zone_id,
         segment_id |-> row.segment_id,
         adjusted_demand |-> row.adjusted_demand,
         max_hourly_capacity |-> capacity,
         orders_completed |-> orders_completed,
         orders_lost_capacity |-> ClipAtZero(FSub(row.adjusted_demand, orders_completed))]

allocate_capacity(sim_df) ==
    LET out == [i \in 1..Len(sim_df) |-> Allocated(sim_df, sim_df[i])]
    IN  [i \in 1..Len(out) |->
            [strategy_name |-> out[i].strategy_name,
             timestamp |-> out[i].timestamp,
             zone_id |-> out[i].zone_id,
             segment_id |-> out[i].segment_id,
             adjusted_demand |-> out[i].adjusted_demand,
             max_hourly_capacity |-> out[i].max_hourly_capacity,
             orders_completed |-> out[i].orders_completed,
             orders_lost_capacity |-> out[i].orders_lost_capacity,
             utilization_rate |->
                RDiv(GroupSum(out, out[i], "orders_completed"),
                     NpMaximum(out[i].max_hourly_capacity, Unit(1)))]]

\* capacity_breach_flag of compute_outcomes
capacity_breach_flag(row) == IF FGt(row.utilization_rate, Unit(1)) THEN 1 ELSE 0

-----------------------------------------------------------------------------
(* Inputs of allocate_capacity: the table of apply_demand_response, with   *)
(* max_hourly_capacity >= 1.0 (attach_capacity_profiles) and               *)
(* adjusted_demand >= 0 (apply_demand_response), the same capacity on      *)
(* every row of a zone and hour                                            *)

Capacities == {Unit(1), Unit(2), Unit(7), Unit(50)}
AdjustedDemands == {0, Unit(1) + Scale \div 2, Unit(3) + Scale \div 2, Unit(25)}
Segments == Range(SegmentOrder)

\* one row per segment of `demand`, for one strategy, hour and zone
GroupRows(strategy, zone, capacity, demand) ==
    LET present == SelectSeq(SegmentOrder, LAMBDA s: s \in DOMAIN demand)
    IN  [i \in 1..Len(present) |->
            [strategy_name |-> strategy, timestamp |-> FirstHour, zone_id |-> zone,
             segment_id |-> present[i],
             adjusted_demand |-> demand[present[i]],
             max_hourly_capacity |-> capacity]]

\* a group of STATIC_BASELINE alone, or followed by the same zone and hour
\* under POLICY_RECOMMENDED with a demand of 25 per segment
SimTables ==
    UNION {{GroupRows("STATIC_BASELINE", "zone_1", capacity, demand)
                \o (IF other
                    THEN GroupRows("POLICY_RECOMMENDED", "zone_1", capacity,
                                   [s \in Segments |-> Unit(25)])
                    ELSE <<>>) :
                capacity \in Capacities, demand \in [S -> AdjustedDemands],
                other \in BOOLEAN} : S \in (SUBSET Segments) \ {{}}}

InitCapacity ==
    /\ pc = "call"
    /\ call_args \in {[fn |-> "allocate_capacity", sim_df |-> t] : t \in SimTables}
    /\ call_result = <<>>
    /\ eu_actuals = <<>>
    /\ eu_forecasts = <<>>
    /\ eu_band = <<>>
    /\ file_cols = REQUIRED_COLS
    /\ file_rows = <<>>
    /\ error = "none"
    /\ df = <<>>
    /\ ts_df = <<>>
    /\ baseline_model = NoModel
    /\ regression_model = NoModel
    /\ baseline_24 = <<>>
    /\ regression_24 = <<>>
    /\ baseline_72 = <<>>
    /\ regression_72 = <<>>
    /\ output_df = <<>>
    /\ saved = <<>>
    /\ written = FALSE

AllocateCapacityCall ==
    /\ pc = "call"
    /\ call_args.fn = "allocate_capacity"
    /\ Returned(allocate_capacity(call_args.sim_df))

NextCapacity == AllocateCapacityCall

SpecCapacity == InitCapacity /\ [][NextCapacity]_vars

-----------------------------------------------------------------------------
(* Claims about estimate_uncertainty, checked under SpecEU *)

EUResiduals == [i \in 1..Len(eu_actuals) |-> eu_actuals[i] - eu_forecasts[i]]

EUNonEmpty == Len(eu_actuals) > 0 /\ Len(eu_forecasts) > 0

\* r-th smallest element of a, by counting
OrderStat(a, r) ==
    CHOOSE v \in Range(a) :
        /\ Cardinality({i \in 1..Len(a) : a[i] < v}) < r
        /\ r <= Cardinality({i \in 1..Len(a) : a[i] <= v})

\* reference quantile at tenths / 10, linear interpolation between the order
\* statistics around position 1 + q * (n - 1)
RefQuantile(a, tenths) ==
    LET h == tenths * (Len(a) - 1)
        j == h \div 10
        g == h % 10
    IN  ((10 - g) * OrderStat(a, j + 1) + g * OrderStat(a, Min(j + 2, Len(a)))) \div 10

RefLow == RefQuantile(EUResiduals, 1)
RefHigh == RefQuantile(EUResiduals, 9)

\* |low - high| <= 1e-8 + 1e-5 * |high|; on the grid the right-hand side
\* is |high| / 100000 rounded down (1e-8 is less than a grid unit / 100000)
WithinTolerance(low, high) == Abs(low - high) <= Abs(high) \div 100000

\* C7: estimate_uncertainty returns exactly (-1.0, +1.0) whenever the actuals
\* array or the forecasts array is empty.
Thm_C7 ==
    (pc = "eu_done" /\ (Len(eu_actuals) = 0 \/ Len(eu_forecasts) = 0))
        => eu_band = <<-Unit(1), Unit(1)>>

\* a call with empty actuals and non-empty forecasts has returned
Wit_C7 == pc = "eu_done" /\ Len(eu_actuals) = 0 /\ Len(eu_forecasts) > 0

\* C8 as stated: for non-empty inputs whose 10th and 90th percentile
\* residuals differ, the band is (10th percentile, 90th percentile) of the
\* reference quantile, unchanged.
Orig_C8 ==
    (pc = "eu_done" /\ EUNonEmpty /\ RefLow # RefHigh)
        => eu_band = <<RefLow, RefHigh>>

\* C8 amended: for non-empty inputs whose 10th and 90th percentile residuals
\* differ by more than the tolerance 1e-8 + 1e-5 * |90th percentile|, the band
\* is (10th percentile, 90th percentile) of the reference quantile, unchanged:
\* not re-centred, not symmetric.
Thm_C8 ==
    (pc = "eu_done" /\ EUNonEmpty /\ ~WithinTolerance(RefLow, RefHigh))
        => eu_band = <<RefLow, RefHigh>>

\* a band with both adjustments negative has been returned from quantiles
\* that differ
Wit_C8 ==
    /\ pc = "eu_done"
    /\ EUNonEmpty
    /\ ~WithinTolerance(RefLow, RefHigh)
    /\ eu_band[1] < eu_band[2]
    /\ eu_band[2] < 0

\* C9: when the 10th and 90th percentile residuals are equal, the band is
\* (-s, +s) with s the standard deviation of the residuals, and s is 1.0 when
\* that standard deviation is exactly 0.
Thm_C9 ==
    (pc = "eu_done" /\ EUNonEmpty /\ RefLow = RefHigh)
        => LET std == NpStd(EUResiduals)
               s == IF std = 0 THEN Unit(1) ELSE std
           IN  eu_band = <<-s, s>>

\* equal quantiles with residuals that are not all the same: the band is
\* plus or minus a positive standard deviation
Wit_C9 ==
    /\ pc = "eu_done"
    /\ EUNonEmpty
    /\ RefLow = RefHigh
    /\ \E i \in 1..Len(EUResiduals) : EUResiduals[i] # EUResiduals[1]
    /\ eu_band[2] > 0
    /\ eu_band[2] # Unit(1)
    /\ eu_band[1] = -eu_band[2]

-----------------------------------------------------------------------------
(* Claims about the pipeline, checked under Spec *)

AllKeys == {KeyA, KeyB}

\* number of observations of a series in the prepared table
SeriesLen(key) == Cardinality({i \in 1..Len(ts_df) : SameKey(ts_df[i], key)})

\* positions of the rows of a series under a model in a forecast table
RowsFor(frame, key, model_name) ==
    {i \in 1..Len(frame) : SameKey(frame[i], key) /\ frame[i].forecast_model = model_name}

HasModel(model, key) ==
    \E i \in 1..Len(model.series_models) : SameKey(model.series_models[i], key)

ModelOf(model, key) ==
    model.series_models[CHOOSE i \in 1..Len(model.series_models) :
                            SameKey(model.series_models[i], key)]

PcAfterPrepare ==
    pc \in {"train_baseline", "train_regression", "baseline_24", "regression_24",
            "baseline_72", "regression_72", "assemble", "save", "done"}
PcAfterTrainBaseline == PcAfterPrepare /\ pc # "train_baseline"
PcAfterTrainRegression == PcAfterTrainBaseline /\ pc # "train_regression"
PcAfterBaseline24 == PcAfterTrainRegression /\ pc # "baseline_24"
PcAfterRegression24 == PcAfterBaseline24 /\ pc # "regression_24"
PcAfterBaseline72 == PcAfterRegression24 /\ pc # "baseline_72"
PcAfterRegression72 == PcAfterBaseline72 /\ pc # "regression_72"
PcAfterAssemble == pc \in {"save", "done"}

\* the calls of forecast_next_horizon: model, horizon, result, and whether
\* the call has returned
ForecastRuns ==
    {[model |-> baseline_model, horizon |-> 24, frame |-> baseline_24,
      returned |-> PcAfterBaseline24],
     [model |-> regression_model, horizon |-> 24, frame |-> regression_24,
      returned |-> PcAfterRegression24],
     [model |-> baseline_model, horizon |-> 72, frame |-> baseline_72,
      returned |-> PcAfterBaseline72],
     [model |-> regression_model, horizon |-> 72, frame |-> regression_72,
      returned |-> PcAfterRegression72]}

\* equality of floats: NaN equals nothing
FloatEq(a, b) == a # NaN /\ b # NaN /\ a = b

\* max(0, point + adjustment) over the reals
Offset(point, adjustment) ==
    IF point = NaN \/ adjustment = NaN THEN NaN
    ELSE IF point + adjustment > 0 THEN point + adjustment ELSE 0

\* C1: in every row produced by forecast_next_horizon (any series, either
\* model, any step), lower_bound equals max(0, forecast_demand +
\* low_adjustment) and upper_bound equals max(0, forecast_demand +
\* high_adjustment) for the one band stored with that series and model at
\* training time, the same at every step.
Claim_C1 ==
    \A run \in ForecastRuns :
        \A i \in 1..Len(run.frame) :
            LET row == run.frame[i]
                band == ModelOf(run.model, row).uncertainty
            IN  /\ FloatEq(row.lower_bound, Offset(row.forecast_demand, band[1]))
                /\ FloatEq(row.upper_bound, Offset(row.forecast_demand, band[2]))

\* C2: every row of the forecast output table has forecast_demand,
\* lower_bound and upper_bound that are real numbers >= 0, for every series
\* of at least one observation and both models.
Claim_C2 ==
    \A i \in 1..Len(output_df) :
        /\ output_df[i].forecast_demand # NaN /\ output_df[i].forecast_demand >= 0
        /\ output_df[i].lower_bound # NaN /\ output_df[i].lower_bound >= 0
        /\ output_df[i].upper_bound # NaN /\ output_df[i].upper_bound >= 0

\* C3 as stated: train_regression_forecaster skips a series exactly when it
\* has fewer than 169 observations; every series with 169 or more gets a
\* regression model and regression rows in the output.
Orig_C3 ==
    \A key \in AllKeys :
        /\ (PcAfterTrainRegression /\ SeriesLen(key) >= 1)
                => (HasModel(regression_model, key) <=> SeriesLen(key) >= 169)
        /\ (PcAfterAssemble /\ SeriesLen(key) >= 1)
                => (RowsFor(output_df, key, "regression") # {} <=> SeriesLen(key) >= 169)

\* C3 amended: train_regression_forecaster skips a series exactly when its
\* training prefix, the n - min(72, max(24, n // 10)) observations before the
\* validation tail, is shorter than 169 observations, which is when the
\* series is shorter than 193; every series with 193 or more observations
\* gets a regression model and regression rows in the output.
Thm_C3 ==
    \A key \in AllKeys :
        LET n == SeriesLen(key)
            prefix == n - Min(72, Max(24, n \div 10))
        IN  /\ n >= 1 => (prefix >= 169 <=> n >= 193)
            /\ (PcAfterTrainRegression /\ n >= 1)
                    => (HasModel(regression_model, key) <=> n >= 193)
            /\ (PcAfterAssemble /\ n >= 1)
                    => (RowsFor(output_df, key, "regression") # {} <=> n >= 193)

\* the run has ended with a series of 192 observations skipped and a series
\* of 193 observations in the regression output
Wit_C3 ==
    /\ pc = "done"
    /\ SeriesLen(KeyA) = 192
    /\ SeriesLen(KeyB) = 193
    /\ RowsFor(output_df, KeyA, "regression") = {}
    /\ RowsFor(output_df, KeyB, "regression") # {}

\* C4: a series of length 0 or 1 raises no exception in training or
\* projection and contributes no rows to the forecast output under either
\* model.
Claim_C4 ==
    \A key \in AllKeys :
        (PcAfterPrepare /\ SeriesLen(key) <= 1)
            => /\ error = "none"
               /\ \A name \in {"baseline", "regression"} :
                    /\ RowsFor(baseline_24 \o regression_24, key, name) = {}
                    /\ RowsFor(baseline_72 \o regression_72, key, name) = {}
                    /\ RowsFor(output_df, key, name) = {}
                    /\ RowsFor(saved, key, name) = {}

\* a series whose training prefix yields no regression row
TooShortForRegression(key) ==
    LET n == SeriesLen(key)
    IN  n >= 1 /\ n - Min(72, Max(24, n \div 10)) <= 168

\* C5: a series too short to produce a regression design is left out of the
\* regression model without raising, still gets a baseline model and baseline
\* output rows, and does not stop any other series of the input from being
\* trained and forecast by both models.
Thm_C5 ==
    \A key \in AllKeys :
        TooShortForRegression(key) =>
            /\ pc # "failed" /\ error = "none"
            /\ PcAfterTrainBaseline => HasModel(baseline_model, key)
            /\ PcAfterTrainRegression => ~HasModel(regression_model, key)
            /\ PcAfterAssemble =>
                    /\ Cardinality(RowsFor(output_df, key, "baseline")) = 72
                    /\ RowsFor(output_df, key, "regression") = {}
            /\ \A other \in AllKeys \ {key} :
                    (SeriesLen(other) >= 1 /\ ~TooShortForRegression(other)) =>
                        /\ PcAfterTrainBaseline => HasModel(baseline_model, other)
                        /\ PcAfterTrainRegression => HasModel(regression_model, other)
                        /\ PcAfterAssemble =>
                            /\ Cardinality(RowsFor(output_df, other, "baseline")) = 72
                            /\ Cardinality(RowsFor(output_df, other, "regression")) = 72

\* the run has ended for an input whose first series (in training order) has
\* one observation and whose second series is forecast by both models
Wit_C5 ==
    /\ pc = "done"
    /\ SeriesLen(KeyB) = 1
    /\ KeyLess(KeyB, KeyA)
    /\ ~TooShortForRegression(KeyA)
    /\ Cardinality(RowsFor(saved, KeyA, "regression")) = 72
    /\ Cardinality(RowsFor(saved, KeyB, "baseline")) = 72

\* C6: if any required input column is absent the run fails with a fatal
\* error before any series is trained and before any output is written; with
\* all required columns present no such error is raised.
Thm_C6 ==
    /\ (pc # "load" /\ \E c \in REQUIRED_COLS : c \notin file_cols) =>
            /\ pc = "failed"
            /\ error # "none"
            /\ baseline_model = NoModel /\ regression_model = NoModel
            /\ output_df = <<>> /\ saved = <<>> /\ ~written
    /\ (\A c \in REQUIRED_COLS : c \in file_cols) => (error = "none" /\ pc # "failed")

\* the run has failed on a file that lacks only orders_lost_capacity, a
\* column the forecasters never read
Wit_C6 ==
    /\ pc = "failed"
    /\ REQUIRED_COLS \ file_cols = {"orders_lost_capacity"}
    /\ Len(file_rows) > 0

\* C10: for any fitted model and horizon H, forecast_next_horizon emits for
\* each series of the model exactly H rows, with timestamps last_timestamp +
\* 1h .. last_timestamp + H hours, each carrying the series' zone_id and
\* segment_id and the model's name; and no other rows.
Thm_C10 ==
    \A run \in ForecastRuns :
        run.returned =>
            /\ Len(run.frame) = run.horizon * Len(run.model.series_models)
            /\ \A s \in 1..Len(run.model.series_models) :
                    LET m == run.model.series_models[s]
                        rows == RowsFor(run.frame, m, run.model.model_name)
                    IN  /\ Cardinality(rows) = run.horizon
                        /\ {run.frame[i].timestamp : i \in rows}
                                = (m.last_timestamp + 1)..(m.last_timestamp + run.horizon)
                        /\ \A i \in rows : \A j \in rows :
                                run.frame[i].timestamp = run.frame[j].timestamp => i = j
            /\ \A i \in 1..Len(run.frame) :
                    /\ run.frame[i].forecast_model = run.model.model_name
                    /\ HasModel(run.model, run.frame[i])

\* both projections of a regression model with two series have returned
Wit_C10 ==
    /\ pc = "done"
    /\ Len(regression_model.series_models) = 2
    /\ Len(regression_24) = 48
    /\ Len(regression_72) = 144
    /\ Len(baseline_72) = 144

ModelNames == {"baseline", "regression"}

TrainedModel(name) == IF name = "baseline" THEN baseline_model ELSE regression_model

\* last timestamp observed for a series in the input file
LastObserved(key) ==
    Iter(LAMBDA st, i: [k |-> i,
                        last |-> IF SameKey(file_rows[i], key)
                                    /\ file_rows[i].timestamp > st.last
                                 THEN file_rows[i].timestamp ELSE st.last],
         [k |-> 0, last |-> -1], 1, Len(file_rows)).last

\* the key of an output row
RowKey(row) == <<row.timestamp, row.zone_id, row.segment_id, row.forecast_model>>

\* C11: the final output table holds exactly one row per (zone_id,
\* segment_id, forecast_model, future hour) for every series trained under
\* that model: no (timestamp, zone_id, segment_id, forecast_model) key occurs
\* twice, each trained series/model pair contributes the 72 hours that follow
\* its last observed timestamp, and there are no other rows.
Thm_C11 ==
    PcAfterAssemble =>
        /\ Cardinality({RowKey(output_df[i]) : i \in 1..Len(output_df)}) = Len(output_df)
        /\ Len(output_df) = 72 * (Len(baseline_model.series_models)
                                    + Len(regression_model.series_models))
        /\ \A key \in AllKeys : \A name \in ModelNames :
                LET rows == RowsFor(output_df, key, name)
                    last == LastObserved(key)
                IN  IF HasModel(TrainedModel(name), key)
                    THEN /\ Cardinality(rows) = 72
                         /\ {output_df[i].timestamp : i \in rows} = (last + 1)..(last + 72)
                    ELSE rows = {}

\* the run has ended with two series, both trained under both models, whose
\* last observations are at different hours
Wit_C11 ==
    /\ pc = "done"
    /\ Len(baseline_model.series_models) = 2
    /\ Len(regression_model.series_models) = 2
    /\ Len(output_df) = 288
    /\ LastObserved(KeyA) # LastObserved(KeyB)

\* a <= b in the lexicographic order of (timestamp, zone_id, segment_id,
\* forecast_model)
LexLeq(a, b) ==
    LET ka == <<a.timestamp, Rank(ZoneOrder, a.zone_id), Rank(SegmentOrder, a.segment_id),
                Rank(ModelOrder, a.forecast_model)>>
        kb == <<b.timestamp, Rank(ZoneOrder, b.zone_id), Rank(SegmentOrder, b.segment_id),
                Rank(ModelOrder, b.forecast_model)>>
    IN  \/ ka = kb
        \/ \E c \in 1..4 : ka[c] < kb[c] /\ \A e \in 1..(c - 1) : ka[e] = kb[e]

Sorted(frame) == \A i \in 1..(Len(frame) - 1) : LexLeq(frame[i], frame[i + 1])

\* C12: the rows of the final forecast output table, and of the file written
\* from it, are in non-decreasing lexicographic order of (timestamp, zone_id,
\* segment_id, forecast_model), whatever the order of rows and series in the
\* input.
Thm_C12 ==
    /\ PcAfterAssemble => Sorted(output_df)
    /\ pc = "done" => Sorted(saved)

\* the run has ended on an input file given in descending order of time whose
\* two series are forecast by both models
Wit_C12 ==
    /\ pc = "done"
    /\ Len(file_rows) > 1
    /\ file_rows[1].timestamp > file_rows[Len(file_rows)].timestamp
    /\ \A key \in AllKeys : \A name \in ModelNames : RowsFor(saved, key, name) # {}
    /\ Len(saved) = 288

\* the observations of one series, as a file of their own in time order
OwnFile(key) ==
    SortSeq(SelectSeq(file_rows, LAMBDA r: SameKey(r, key)),
            LAMBDA a, b: a.timestamp < b.timestamp)

\* the prepared table of a run on that file
OwnTable(key) == PrepareTimeSeries(LoadData(OwnFile(key)))

\* the rows of a series under a model, in the order of the table
RowsOf(frame, key, name) ==
    SelectSeq(frame, LAMBDA r: SameKey(r, key) /\ r.forecast_model = name)

\* C13: the forecast rows of a series are a function of that series' own
\* observations only: under both models they are the rows that a run on the
\* series alone, given in time order, produces (with the same answers of the
\* least-squares solver: the coefficients stored for the series for its full
\* design, one of the solver's answers for its training design), whatever
\* other series the input holds and whatever the order of its rows.  (Stated
\* of the output table as it is assembled.)
Thm_C13 ==
    pc = "save" =>
        \A key \in AllKeys :
            SeriesLen(key) >= 1 =>
                LET own == OwnTable(key)
                    full == _make_regression_matrix(own)
                    train == _make_regression_matrix(TrainPart(own))
                IN  /\ RowsOf(output_df, key, "baseline")
                            = forecast_next_horizon(train_baseline_forecaster(own), Horizon72)
                    /\ IF HasModel(regression_model, key)
                       THEN \E bt \in Betas :
                                RowsOf(output_df, key, "regression")
                                    = forecast_next_horizon(
                                          train_regression_forecaster(
                                              own,
                                              (full :> ModelOf(regression_model, key).beta)
                                                  @@ (train :> bt)),
                                          Horizon72)
                       ELSE /\ RowsOf(output_df, key, "regression") = <<>>
                            /\ train_regression_forecaster(own, <<>>).series_models = <<>>

\* the run has ended on a file in descending order of time that holds two
\* series of different lengths, both forecast by both models
Wit_C13 ==
    /\ pc = "save"
    /\ Len(file_rows) > 1
    /\ file_rows[1].timestamp > file_rows[Len(file_rows)].timestamp
    /\ SeriesLen(KeyA) > SeriesLen(KeyB)
    /\ SeriesLen(KeyB) > 1
    /\ Len(RowsOf(output_df, KeyA, "regression")) = 72
    /\ Len(RowsOf(output_df, KeyB, "regression")) = 72
    /\ Len(RowsOf(output_df, KeyB, "baseline")) = 72

\* the series is the only one of the input and its final_demand is the
\* constant c > 0
ConstantAlone(key, c) ==
    /\ c > 0
    /\ Len(ts_df) >= 1
    /\ \A i \in 1..Len(ts_df) : SameKey(ts_df[i], key) /\ ts_df[i].final_demand = c

ConstantLevels == {Unit(50), Unit(20) + Unit(5) * (Hour(FirstTs) % 4)}

\* C14: for a single series with constant final_demand c > 0, the baseline
\* model has all 24 hour profiles and all 7 day-of-week profiles equal to 1,
\* trend ratio 1 and level c, so baseline forecast_demand equals c at every
\* horizon hour; its validation residuals are all 0, so the band is the
\* fallback (-1.0, +1.0) and the bounds are max(0, c - 1) and c + 1.
Claim_C14 ==
    \A key \in AllKeys : \A c \in ConstantLevels :
        ConstantAlone(key, c) =>
            /\ PcAfterTrainBaseline =>
                    LET m == ModelOf(baseline_model, key)
                    IN  /\ \A h \in 0..23 : m.components.hour_profile[h] = Unit(1)
                        /\ \A d \in 0..6 : m.components.dow_profile[d] = Unit(1)
                        /\ m.components.trend_ratio = Unit(1)
                        /\ m.components.level = c
                        /\ m.uncertainty = <<-Unit(1), Unit(1)>>
            /\ PcAfterAssemble =>
                    /\ Len(RowsOf(output_df, key, "baseline")) = 72
                    /\ \A i \in 1..Len(output_df) :
                            output_df[i].forecast_model = "baseline" =>
                                /\ output_df[i].forecast_demand = c
                                /\ output_df[i].lower_bound = Max(0, c - Unit(1))
                                /\ output_df[i].upper_bound = c + Unit(1)

\* the validation observations of a series: those whose residuals make its
\* band; and the observations before them
ValidationTail(own) == ValPart(own)

Before(own, tail) == SubSeq(own, 1, Len(own) - Len(tail))

\* the series with every validation observation raised by delta
Raised(own, tail, delta) ==
    LET first == Len(own) - Len(tail) + 1
    IN  SubSeq(own, 1, first - 1)
            \o [i \in 1..Len(tail) |-> [tail[i] EXCEPT !.final_demand = @ + delta]]

\* what raising every validation actual by delta does to a band whose
\* predictions stay the same: quantiles move by delta, a standard-deviation
\* band stays, a NaN band stays
Moved(band, band2, delta) ==
    \/ band = <<NaN, NaN>> /\ band2 = band
    \/ band # <<NaN, NaN>> /\ band2 = <<band[1] + delta, band[2] + delta>>
    \/ band # <<NaN, NaN>> /\ band[1] = -band[2] /\ band2 = band

\* C19: the band stored for a series comes from out-of-sample predictions
\* only: it is the band of the validation actuals against the predictions of
\* a model fit on the observations before the validation tail alone (raising
\* the validation observations moves the baseline band as it moves the
\* actuals, and leaves the frame from which the regression's training design
\* and lag history are made as it is), while the components, coefficients
\* and history stored for forecasting are those of the full series, stored
\* together with that band.  (Stated when both forecasters have just been
\* trained.)
Thm_C19 ==
    pc = "baseline_24" =>
        \A key \in AllKeys :
            SeriesLen(key) >= 1 =>
                LET own == OwnTable(key)
                    tail == ValidationTail(own)
                    prefix == Before(own, tail)
                    raised == Raised(own, tail, Unit(3))
                    b == ModelOf(baseline_model, key)
                IN  /\ b.uncertainty =
                            estimate_uncertainty(
                                Column(tail, "final_demand"),
                                _baseline_predict(_fit_baseline_components(prefix),
                                                  Column(tail, "timestamp")))
                    /\ b.components = _fit_baseline_components(own)
                    /\ Moved(b.uncertainty,
                             BaselineSeriesModel(raised, key).uncertainty, Unit(3))
                    /\ HasModel(regression_model, key) =>
                            LET r == ModelOf(regression_model, key)
                            IN  /\ r.history = Column(own, "final_demand")
                                /\ r.beta \in Betas
                                /\ TrainPart(raised) = prefix
                                /\ \E bt \in Betas :
                                        r.uncertainty =
                                            estimate_uncertainty(
                                                Column(tail, "final_demand"),
                                                _regression_recursive_forecast(
                                                    bt, Column(prefix, "final_demand"),
                                                    prefix[Len(prefix)].timestamp,
                                                    Len(tail)))

\* both forecasters have been trained on a rising series: its baseline band
\* has both adjustments positive (the prefix-fit model under-predicts the
\* tail) and the components stored are not those of the prefix
Wit_C19 ==
    /\ pc = "baseline_24"
    /\ HasModel(regression_model, KeyA)
    /\ ModelOf(baseline_model, KeyA).uncertainty[1] > 0
    /\ ModelOf(baseline_model, KeyA).components
            # _fit_baseline_components(Before(OwnTable(KeyA), ValidationTail(OwnTable(KeyA))))

-----------------------------------------------------------------------------
(* Claims about the helpers, checked under SpecCall *)

ReturnedFrom(fn) == pc = "returned" /\ call_args.fn = fn

\* h = min(72, max(24, floor(n / 10)))
TailSize(n) ==
    LET tenth == n \div 10
        atLeast == IF tenth > 24 THEN tenth ELSE 24
    IN  IF atLeast < 72 THEN atLeast ELSE 72

\* C15: for every series of n observations the forecasters hold out as
\* validation tail exactly the last h = min(72, max(24, floor(n/10)))
\* observations and train on exactly the preceding n - h observations.
Claim_C15 ==
    ReturnedFrom("split") =>
        LET g == call_args.g
            n == Len(g)
            h == TailSize(n)
        IN  /\ Len(call_result.val) = h
            /\ Len(call_result.train) = n - h
            /\ \A i \in 1..Len(call_result.train) : call_result.train[i] = g[i]
            /\ \A i \in 1..Len(call_result.val) : call_result.val[i] = g[n - h + i]

\* C16: _make_regression_matrix applied to a series of n observations
\* returns exactly max(0, n - 168) training rows, one for each index
\* 168..n-1 (0-based), each with 33 features and with the target equal to
\* the observation at that index; n = 168 gives no row and n = 169 exactly
\* one.
Thm_C16 ==
    ReturnedFrom("matrix") =>
        LET obs == call_args.series_df
            n == Len(obs)
            X == call_result.X
            y == call_result.y
        IN  /\ Len(X) = (IF n > 168 THEN n - 168 ELSE 0)
            /\ Len(y) = Len(X)
            /\ n = 168 => Len(X) = 0
            /\ n = 169 => Len(X) = 1
            /\ \A j \in 1..Len(X) :
                    \* row j is the row of 0-based index 167 + j, the
                    \* observation obs[168 + j]
                    /\ Len(X[j]) = 33
                    /\ y[j] = obs[168 + j].final_demand
                    /\ X[j][2] = obs[168 + j - 1].final_demand
                    /\ X[j][3] = obs[168 + j - 24].final_demand
                    /\ X[j][4] = obs[j].final_demand
                    /\ X[j][5 + 22] = (IF obs[168 + j].hour = 23 THEN Unit(1) ELSE 0)

\* the design of a series of 169 observations has been returned: one row,
\* whose target is the last observation
Wit_C16 ==
    /\ ReturnedFrom("matrix")
    /\ Len(call_args.series_df) = 169
    /\ Len(call_result.X) = 1
    /\ call_result.y = <<call_args.series_df[169].final_demand>>
    /\ call_result.y[1] # call_args.series_df[1].final_demand

\* the feature row the claim describes for step k, from the observed
\* history and the predictions returned
StepRow(history, preds, last_ts, k) ==
    LET n == Len(history)
        lag_1 == IF k >= 2 THEN preds[k - 1] ELSE history[n]
        lag_24 == IF k > 24 THEN preds[k - 24] ELSE history[n - 24 + k]
        lag_168 == history[n - 168 + k]
    IN  <<Unit(1), lag_1, lag_24, lag_168>>
            \o [j \in 1..23 |-> IF Hour(last_ts + k) = j THEN Unit(1) ELSE 0]
            \o [d \in 1..6 |-> IF DayOfWeek(last_ts + k) = d THEN Unit(1) ELSE 0]

\* C17: in _regression_recursive_forecast with at least 168 observed values
\* and horizon H <= 168, the prediction of step k is the product of the
\* coefficients with a row that reads lag 1 from the prediction of step k-1
\* when k >= 2 (the last observation when k = 1), lag 24 from the prediction
\* of step k-24 when k > 24 (an observed value otherwise) and lag 168 from an
\* observed value, floored at 0; the floored value is what is returned and
\* what later steps read.
Thm_C17 ==
    (ReturnedFrom("recursive") /\ Len(call_args.history) >= 168 /\ call_args.horizon <= 168)
        => /\ Len(call_result) = call_args.horizon
           /\ \A k \in 1..call_args.horizon :
                LET raw == Dot(StepRow(call_args.history, call_result, call_args.last_ts, k),
                               call_args.beta)
                IN  /\ call_result[k] >= 0
                    /\ call_result[k] = (IF raw > 0 THEN raw ELSE 0)

\* a forecast over more than 24 steps has returned in which a step was
\* floored at 0 and a later step is positive
Wit_C17 ==
    /\ ReturnedFrom("recursive")
    /\ call_args.horizon > 24
    /\ \E k \in 1..call_args.horizon :
            /\ Dot(StepRow(call_args.history, call_result, call_args.last_ts, k),
                   call_args.beta) < 0
            /\ call_result[k] = 0
            /\ \E later \in (k + 1)..call_args.horizon : call_result[later] > 0

\* C18: _build_regression_row returns a 33-element row [1.0, lag_1, lag_24,
\* lag_168, 23 hour indicators, 6 day-of-week indicators] in which hour 0 has
\* all hour indicators zero and hour h in 1..23 has exactly indicator h-1 set
\* to 1; Monday has all day indicators zero and weekday d in 1..6 has exactly
\* indicator d-1 set to 1.
Thm_C18 ==
    ReturnedFrom("row") =>
        LET row == call_result
            history == call_args.history
            n == Len(history)
        IN  /\ Len(row) = 33
            /\ row[1] = Unit(1)
            /\ row[2] = history[n]
            /\ row[3] = history[n - 23]
            /\ row[4] = history[n - 167]
            /\ \A i \in 0..22 :
                    row[5 + i] = (IF call_args.hour >= 1 /\ i = call_args.hour - 1
                                  THEN Unit(1) ELSE 0)
            /\ \A i \in 0..5 :
                    row[28 + i] = (IF call_args.dayofweek >= 1 /\ i = call_args.dayofweek - 1
                                   THEN Unit(1) ELSE 0)
            /\ call_args.hour = 0 => \A i \in 0..22 : row[5 + i] = 0
            /\ call_args.dayofweek = 0 => \A i \in 0..5 : row[28 + i] = 0

\* the row of a Monday at 23:00 has been returned: the last hour indicator
\* is set and no day indicator is
Wit_C18 ==
    /\ ReturnedFrom("row")
    /\ call_args.hour = 23
    /\ call_args.dayofweek = 0
    /\ call_result[27] = Unit(1)
    /\ \A i \in 28..33 : call_result[i] = 0

\* sum and mean of the demand at the positions S of a window
SumAt(window, S) ==
    SeqSum([i \in 1..Len(window) |-> IF i \in S THEN window[i].final_demand ELSE 0])

MeanAt(window, S) == SumAt(window, S) \div Cardinality(S)

\* max(x, 1e-6), with 1e-6 at the resolution of the grid
Floored(x) == IF x > Eps THEN x ELSE Eps

\* C20: for every non-empty training window, _fit_baseline_components
\* returns level = max(mean of the last 168 observations, or of the whole
\* window if it has fewer than 168, 1e-6); hour_profile[h] and dow_profile[d]
\* are the mean demand of that hour / weekday divided by max(mean of the
\* whole window, 1e-6) for every hour / weekday present in the window, and
\* exactly 1.0 for every hour / weekday absent from it.
Thm_C20 ==
    (ReturnedFrom("fit") /\ Len(call_args.series_df) >= 1) =>
        LET window == call_args.series_df
            n == Len(window)
            recent == IF n < 168 THEN 1..n ELSE (n - 167)..n
            overall == Floored(MeanAt(window, 1..n))
            atHour(h) == {i \in 1..n : window[i].timestamp % 24 = h}
            atDay(d) == {i \in 1..n : (window[i].timestamp \div 24) % 7 = d}
        IN  /\ call_result.level = Floored(MeanAt(window, recent))
            /\ DOMAIN call_result.hour_profile = 0..23
            /\ DOMAIN call_result.dow_profile = 0..6
            /\ \A h \in 0..23 :
                    call_result.hour_profile[h] =
                        (IF atHour(h) = {} THEN Unit(1)
                         ELSE (MeanAt(window, atHour(h)) * Scale) \div overall)
            /\ \A d \in 0..6 :
                    call_result.dow_profile[d] =
                        (IF atDay(d) = {} THEN Unit(1)
                         ELSE (MeanAt(window, atDay(d)) * Scale) \div overall)

\* the components of a window of 20 hours have been returned: some hours
\* are absent, the hours present have profiles that differ
Wit_C20 ==
    /\ ReturnedFrom("fit")
    /\ Len(call_args.series_df) = 20
    /\ \E h \in 0..23 : \A i \in 1..20 : call_args.series_df[i].hour # h
    /\ \E h \in 0..23 : call_result.hour_profile[h] > Unit(1)
    /\ \E h \in 0..23 : call_result.hour_profile[h] < Unit(1)

\* C21: for every non-empty series the fitted trend ratio lies in
\* [0.90, 1.10]: it is the mean of the last 168 observations divided by the
\* mean of the 168 observations before those, each mean floored at 1e-6 and
\* each window replaced by the whole series when the series is too short for
\* it, clamped to that interval; a series with fewer than 168 observations
\* has trend ratio exactly 1.0.
Thm_C21 ==
    (ReturnedFrom("fit") /\ Len(call_args.series_df) >= 1) =>
        LET window == call_args.series_df
            n == Len(window)
            recent == IF n < 168 THEN 1..n ELSE (n - 167)..n
            prior == IF n < 336 THEN 1..n ELSE (n - 335)..(n - 168)
            ratio == (Floored(MeanAt(window, recent)) * Scale)
                        \div Floored(MeanAt(window, prior))
            clamped == IF ratio < TrendLow THEN TrendLow
                       ELSE IF ratio > TrendHigh THEN TrendHigh ELSE ratio
        IN  /\ call_result.trend_ratio >= TrendLow
            /\ call_result.trend_ratio <= TrendHigh
            /\ call_result.trend_ratio = clamped
            /\ (n < 168 => call_result.trend_ratio = Unit(1))

\* the components of a series of at least 336 observations have been
\* returned, the ratio of its two window means is above 1.10 and the trend
\* ratio is 1.10
Wit_C21 ==
    /\ ReturnedFrom("fit")
    /\ Len(call_args.series_df) >= 336
    /\ LET window == call_args.series_df
           n == Len(window)
       IN  Floored(MeanAt(window, (n - 167)..n)) * Scale
                > TrendHigh * Floored(MeanAt(window, (n - 335)..(n - 168)))
    /\ call_result.trend_ratio = TrendHigh

\* a <= b on floats: false when either is NaN
FloatLeq(a, b) == a # NaN /\ b # NaN /\ a <= b

\* C22: estimate_uncertainty returns a band with low_adjustment strictly
\* below high_adjustment, so that every row of the forecast output table
\* satisfies lower_bound <= upper_bound.
Claim_C22 ==
    \A i \in 1..Len(output_df) :
        FloatLeq(output_df[i].lower_bound, output_df[i].upper_bound)

\* the first `count` rows of every block of `horizon` rows of a frame
HeadOfEach(frame, horizon, count) ==
    [j \in 1..((Len(frame) \div horizon) * count) |->
        frame[((j - 1) \div count) * horizon + ((j - 1) % count) + 1]]

PcForecasting == pc \in {"baseline_24", "regression_24", "baseline_72", "regression_72"}

\* C23: forecast_next_horizon leaves the trained model unchanged (history,
\* coefficients, components, band and last_timestamp of every series), so
\* the 24h projection of a model equals, row for row, the first 24 hours of
\* its 72h projection for every series, and projecting 24h again after the
\* 72h run gives the same rows as before it.
Thm_C23 ==
    [][/\ PcForecasting =>
            /\ baseline_model' = baseline_model
            /\ regression_model' = regression_model
       /\ (pc = "regression_72" /\ pc' = "assemble") =>
            /\ baseline_24' = HeadOfEach(baseline_72', Horizon72, Horizon24)
            /\ regression_24' = HeadOfEach(regression_72', Horizon72, Horizon24)
            /\ forecast_next_horizon(baseline_model', Horizon24) = baseline_24'
            /\ forecast_next_horizon(regression_model', Horizon24) = regression_24']_vars

\* both projections of both models have been made for two series, and the
\* regression forecast of a series changes from hour to hour
Wit_C23 ==
    /\ pc = "assemble"
    /\ Len(regression_model.series_models) = 2
    /\ Len(regression_24) = 2 * Horizon24
    /\ Len(regression_72) = 2 * Horizon72
    /\ Len(baseline_72) = 2 * Horizon72
    /\ \E i \in 2..Horizon24 :
            regression_24[i].forecast_demand # regression_24[i - 1].forecast_demand

-----------------------------------------------------------------------------
(* Claims about apply_pricing_rules, checked under SpecRules *)

\* the row of signals_df a decision was made for
InputRow(d) ==
    CHOOSE r \in Range(call_args.signals_df) :
        SameKey(r, d) /\ r.timestamp = d.timestamp

\* the rows of a table that belong to one key
Only(table, key) == SelectSeq(table, LAMBDA r: SameKey(r, key))

Moves(d) == d.recommended_action # "HOLD"

\* the decisions of the same key that moved the price before d
MovesBefore(d) ==
    {e \in Range(call_result) : SameKey(e, d) /\ e.timestamp < d.timestamp /\ Moves(e)}

\* C24: for every (zone_id, segment_id), any two decisions that are not HOLD
\* are at least 3 hours apart: a row that would be SURGE or DISCOUNT less than
\* 3 hours after the previous non-HOLD decision of its key is HOLD with pct
\* change 0 and reason COOLDOWN_GUARDRAIL; a decision held by the cooldown
\* does not restart the window; the cooldown of one key never affects
\* another key.
Thm_C24 ==
    ReturnedFrom("apply_pricing_rules") =>
        /\ \A d, e \in Range(call_result) :
                (SameKey(d, e) /\ d # e /\ Moves(d) /\ Moves(e))
                    => Abs(d.timestamp - e.timestamp) >= 3
        /\ \A d \in Range(call_result) :
                LET wanted == Proposal(InputRow(d)).action
                    recent == \E e \in MovesBefore(d) : d.timestamp - e.timestamp < 3
                IN  wanted # "HOLD" =>
                        IF recent
                        THEN /\ d.recommended_action = "HOLD"
                             /\ d.recommended_pct_change = 0
                             /\ d.decision_reason = "COOLDOWN_GUARDRAIL"
                        ELSE d.recommended_action = wanted
        /\ \A key \in {KeyA, KeyB} :
                Only(call_result, key)
                    = apply_pricing_rules(Only(call_args.signals_df, key))

\* two keys, each called to surge at hours 0, 2 and 4: each surges, is held
\* by the cooldown, and surges again two hours after the held decision
Wit_C24 ==
    /\ ReturnedFrom("apply_pricing_rules")
    /\ Len(call_result) = 6
    /\ \A key \in {KeyA, KeyB} :
            LET own == Only(call_result, key)
            IN  /\ Len(own) = 3
                /\ own[1].recommended_action = "SURGE"
                /\ own[2].recommended_action = "HOLD"
                /\ own[2].decision_reason = "COOLDOWN_GUARDRAIL"
                /\ own[2].timestamp = own[1].timestamp + 2
                /\ own[3].recommended_action = "SURGE"
                /\ own[3].timestamp = own[2].timestamp + 2

\* C25: every decision has recommended_action SURGE, DISCOUNT or HOLD; HOLD
\* has recommended_pct_change exactly 0, SURGE has it in [0.05, 0.20] and
\* DISCOUNT in [-0.25, -0.06], so the change never leaves [-0.25, 0.20].
Thm_C25 ==
    ReturnedFrom("apply_pricing_rules") =>
        \A d \in Range(call_result) :
            LET pct == d.recommended_pct_change
            IN  /\ pct # NaN
                /\ d.recommended_action \in {"SURGE", "DISCOUNT", "HOLD"}
                /\ d.recommended_action = "HOLD" => pct = 0
                /\ d.recommended_action = "SURGE"
                        => (pct * 100 >= 5 * PctScale /\ pct * 100 <= 20 * PctScale)
                /\ d.recommended_action = "DISCOUNT"
                        => (pct * 100 >= -25 * PctScale /\ pct * 100 <= -6 * PctScale)
                /\ pct * 100 >= -25 * PctScale
                /\ pct * 100 <= 20 * PctScale

\* a surge of 0.20 for a worst-case pressure of 1.40, a discount and a HOLD
\* in one table
Wit_C25 ==
    /\ ReturnedFrom("apply_pricing_rules")
    /\ \E d \in Range(call_result) :
            /\ d.recommended_action = "SURGE"
            /\ d.recommended_pct_change * 100 = 20 * PctScale
            /\ InputRow(d).worst_case_pressure = 140
    /\ \E d \in Range(call_result) :
            d.recommended_action = "DISCOUNT" /\ d.recommended_pct_change < 0
    /\ \E d \in Range(call_result) : d.recommended_action = "HOLD"

\* C26 as stated: a row that is both a surge and a discount candidate is
\* HOLD with reason INSUFFICIENT_SIGNAL, and a row that is a surge or a
\* discount candidate with uncertainty_ratio > 0.42 is HOLD with reason
\* UNCERTAINTY_TOO_HIGH and risk_flag HIGH; every SURGE or DISCOUNT has
\* uncertainty_ratio <= 0.42 and exactly one candidate condition true.
Orig_C26 ==
    ReturnedFrom("apply_pricing_rules") =>
        \A d \in Range(call_result) :
            LET row == InputRow(d)
                surge == surge_candidate(row)
                discount == discount_candidate(row)
            IN  /\ (surge /\ discount) =>
                    /\ d.recommended_action = "HOLD"
                    /\ d.decision_reason = "INSUFFICIENT_SIGNAL"
                /\ ((surge \/ discount) /\ row.uncertainty_ratio > 42) =>
                    /\ d.recommended_action = "HOLD"
                    /\ d.decision_reason = "UNCERTAINTY_TOO_HIGH"
                    /\ d.risk_flag = "HIGH"
                /\ Moves(d) =>
                    /\ row.uncertainty_ratio <= 42
                    /\ surge # discount

\* C26: a row that is both a surge and a discount candidate is HOLD with
\* reason INSUFFICIENT_SIGNAL whatever its uncertainty_ratio (its risk_flag
\* is MEDIUM from 0.30 on and LOW below); a row that is exactly one of the
\* two with uncertainty_ratio > 0.42 is HOLD with reason
\* UNCERTAINTY_TOO_HIGH and risk_flag HIGH; every SURGE or DISCOUNT has
\* uncertainty_ratio <= 0.42 and exactly one candidate condition true.
Thm_C26 ==
    ReturnedFrom("apply_pricing_rules") =>
        \A d \in Range(call_result) :
            LET row == InputRow(d)
                surge == surge_candidate(row)
                discount == discount_candidate(row)
            IN  /\ (surge /\ discount) =>
                    /\ d.recommended_action = "HOLD"
                    /\ d.decision_reason = "INSUFFICIENT_SIGNAL"
                    /\ d.risk_flag = (IF row.uncertainty_ratio >= 30 THEN "MEDIUM"
                                      ELSE "LOW")
                /\ ((surge # discount) /\ row.uncertainty_ratio > 42) =>
                    /\ d.recommended_action = "HOLD"
                    /\ d.decision_reason = "UNCERTAINTY_TOO_HIGH"
                    /\ d.risk_flag = "HIGH"
                /\ Moves(d) =>
                    /\ row.uncertainty_ratio <= 42
                    /\ surge # discount

\* a row with conflicting signals and a row with a surge signal alone, both
\* with uncertainty_ratio 0.43: the first is held for INSUFFICIENT_SIGNAL at
\* MEDIUM risk, the second for UNCERTAINTY_TOO_HIGH at HIGH risk
Wit_C26 ==
    /\ ReturnedFrom("apply_pricing_rules")
    /\ \E d \in Range(call_result) :
            /\ surge_candidate(InputRow(d)) /\ discount_candidate(InputRow(d))
            /\ InputRow(d).uncertainty_ratio = 43
            /\ d.decision_reason = "INSUFFICIENT_SIGNAL"
            /\ d.risk_flag = "MEDIUM"
    /\ \E d \in Range(call_result) :
            /\ surge_candidate(InputRow(d)) /\ ~discount_candidate(InputRow(d))
            /\ InputRow(d).uncertainty_ratio = 43
            /\ d.decision_reason = "UNCERTAINTY_TOO_HIGH"
            /\ d.risk_flag = "HIGH"

-----------------------------------------------------------------------------
(* Claims about allocate_capacity, checked under SpecCapacity *)

\* C27: after allocate_capacity, the orders_completed of every
\* (strategy_name, timestamp, zone_id) group add up to min(sum of
\* adjusted_demand, max_hourly_capacity), to within the rounding of the fill
\* ratio and of each product, and never exceed the capacity; every row has
\* 0 <= orders_completed <= adjusted_demand and orders_completed +
\* orders_lost_capacity = adjusted_demand; utilization_rate never exceeds 1.
Claim_C27 ==
    ReturnedFrom("allocate_capacity") =>
        \A i \in 1..Len(call_result) :
            LET row == call_result[i]
                size == Len(SelectSeq(call_result, LAMBDA r: SameGroup(r, row)))
                completed == GroupSum(call_result, row, "orders_completed")
                adjusted == GroupSum(call_result, row, "adjusted_demand")
                due == IF adjusted < row.max_hourly_capacity THEN adjusted
                       ELSE row.max_hourly_capacity
            IN  /\ 2 * Scale * Abs(completed - due) <= adjusted + size * Scale
                /\ completed <= row.max_hourly_capacity
                /\ row.orders_completed >= 0
                /\ row.orders_completed <= row.adjusted_demand
                /\ row.orders_completed + row.orders_lost_capacity = row.adjusted_demand
                /\ row.utilization_rate <= Unit(1)

====
